---- MODULE Spec2Model ----
(***************************************************************************)
(* The evolutionary chain optimiser GPChainOptimiser                       *)
(* (fedot/core/composer/optimisers/gp_optimiser.py) as a state machine.    *)
(*                                                                         *)
(* One run of optimise() is a walk of the program counter pc over the      *)
(* statements of the method; the fields of the optimiser object are the    *)
(* variables.  Strategy modules that the method calls but that are not     *)
(* part of gp_optimiser.py (selection, crossover, mutation, inheritance,   *)
(* evaluate_individuals, the archive, the timer) are modelled by their     *)
(* contract, with every outcome the contract allows.                       *)
(***************************************************************************)
EXTENDS Integers, Sequences, FiniteSets, TLC

\* ------------------------------------------------------------------ bounds
MaxPop == 2        \* requirements.pop_size ranges over 1..MaxPop
MaxSize == 3       \* ... and over 1..MaxSize in the runs that compare sizes
MaxFit == 1        \* an objective value ranges over 0..MaxFit
MaxNodes == 2      \* len(ind.nodes) ranges over 1..MaxNodes
MaxGens == 3       \* requirements.num_of_generations ranges over 1..MaxGens
DepthGens == 5     \* requirements.num_of_generations of the runs that adapt the depth
MaxList == 2       \* length of the lists a method called on its own is given
MaxPrimary == 2    \* len(requirements.primary)
TreeDepth == 1     \* requirements.max_depth of the tree generator ranges over 0..TreeDepth
MaxArity == 3      \* requirements.max_arity ranges over 2..MaxArity
MaxDepth == 2      \* requirements.max_depth ranges over 1..MaxDepth
MaxScore == 2      \* a tuner's score ranges over 0..MaxScore
MaxIterations == 2 \* a custom random tuner runs at most this many iterations
MaxParams == 2     \* the parameter sets a tuner can draw are 0..MaxParams
MaxStep == 3       \* parameters.depth_increase_step ranges over 1..MaxStep

\* ------------------------------------------------------- program constants
RateDen == 4                  \* offspring_rate counts quarters: the default 0.5 is 2
DefaultDepthIncreaseStep == 3 \* GPChainOptimiserParameters(depth_increase_step=3)
DefaultNumBest == 7           \* _best_single_models(num_best=7)

VARIABLES
    requirements,      \* pop_size, num_of_generations, max_depth, start_depth,
                       \* add_single_model_chains, primary
    parameters,        \* GPChainOptimiserParameters
    offspring_rate,    \* argument of optimise, in units of 1/RateDen
    chain_class,       \* the attributes chain_generation_params.chain_class has
    args,              \* the arguments of a method called on its own, else None
    population_is_None, \* self.population is None (no initial chain was given)
    pc,                \* position in optimise
    population,        \* self.population
    population_id,     \* identity of the list object self.population is bound to
    archive,           \* self.archive.items
    archive_updated_with, \* identity of the list last passed to archive.update
    history,           \* self.history
    max_depth,         \* self.max_depth
    generation_num,    \* self.generation_num
    range_pos,         \* how many values the loop's range has handed out
    num_of_gens_without_improvements,
    prev_best,         \* self.prev_best
    best_single_model, \* self.best_single_model
    individuals_to_select,
    selected_individuals,
    new_population,
    time_limit_reached, \* the last answer of t.is_time_limit_reached
    error,             \* the exception that ended the run, "" if none
    result,            \* what optimise returns as best
    steps,             \* the steps the current generation has executed so far
    last_change_gen,   \* the generation in which the best last changed
    best_at_check,     \* the best seen by the previous stagnation check
    tree_nodes,        \* the nodes _tree_generation has created, the root first
    stack,             \* the calls of _tree_growth that have not returned
    model_chains,      \* the list _make_population is filling
    chain,             \* the chain _make_population generated last
    new_inds,          \* the local new_inds of reproduce
    calls,             \* the calls of crossover and mutation reproduce has made
    increases_in_run,  \* how often max_depth was raised since the counter was last 0
    trained_model,     \* the parameters the object self.trained_model is set to
    best_model,        \* the object the local best_model of tune is bound to
    best_score,        \* the local best_score of SklearnCustomRandomTuner.tune
    best_params,       \* the local best_params of a custom random tune
    best_quality_metric, \* the local of ForecastingCustomRandomTuner.tune
    iteration,         \* how many iterations of the tuning loop have started
    seen               \* the parameter sets tried so far, each with its score (None: it raised)

vars == <<requirements, parameters, offspring_rate, chain_class, args,
          population_is_None, pc, population,
          population_id, archive, archive_updated_with, history, max_depth,
          generation_num, range_pos, num_of_gens_without_improvements, prev_best,
          best_single_model, individuals_to_select, selected_individuals, new_population,
          time_limit_reached, error, result, steps, last_change_gen, best_at_check,
          tree_nodes, stack, model_chains, chain, new_inds, calls, increases_in_run,
          trained_model, best_model, best_score, best_params, best_quality_metric,
          iteration, seen>>

\* The state of a custom random tuner and the locals of its tune.
tuner_vars == <<trained_model, best_model, best_score, best_params,
                best_quality_metric, iteration, seen>>

\* The state of the tree generator.
tree_vars == <<tree_nodes, stack>>

\* The locals of _make_population.
make_vars == <<model_chains, chain>>

\* The local of reproduce and the record of the calls it makes.
reproduce_vars == <<new_inds, calls>>

\* ----------------------------------------------------------------- values
None == 0 - 1                  \* a field that holds None or was never set
NoFitness == <<>>              \* an individual no evaluation has scored yet

Ind(n, f) == [nodes |-> n, fitness |-> f]

Range(s) == {s[i] : i \in 1..Len(s)}

Min2(a, b) == IF a <= b THEN a ELSE b

\* The fitness values one evaluation can assign.
FitnessValues(multi_objective) ==
    IF multi_objective
    THEN {<<a, b>> : a \in 0..MaxFit, b \in 0..MaxFit}
    ELSE {<<a>> : a \in 0..MaxFit}

\* Individuals as crossover, mutation and the generator hand them over.
NewIndividuals == {Ind(n, NoFitness) : n \in 1..MaxNodes}

RECURSIVE SetToSeq(_)
SetToSeq(S) ==
    IF S = {} THEN <<>>
    ELSE LET x == CHOOSE y \in S : TRUE IN <<x>> \o SetToSeq(S \ {x})

\* requirements.primary: the model types, by number.
PrimaryModels == [k \in 1..MaxPrimary |-> k]

\* ------------------------------------------------- fitness and best choice
\* The order of fitness values: numbers, or tuples compared position by position.
fitness_lt(f, g) ==
    \E k \in 1..Len(f) : f[k] < g[k] /\ \A j \in 1..(k - 1) : f[j] = g[j]

\* sorted(single_models_inds, key=fitness): rising fitness, equal fitness in
\* list order (sorted is stable). An entry is a pair <<model type, fitness>>.
RECURSIVE sorted_from(_, _)
sorted_from(single_models_inds, left) ==
    IF left = {} THEN <<>>
    ELSE LET i == CHOOSE a \in left : \A b \in left \ {a} :
                      \/ fitness_lt(single_models_inds[a][2], single_models_inds[b][2])
                      \/ /\ single_models_inds[a][2] = single_models_inds[b][2]
                         /\ a < b
         IN <<single_models_inds[i]>> \o sorted_from(single_models_inds, left \ {i})

sorted(single_models_inds) ==
    sorted_from(single_models_inds, 1..Len(single_models_inds))

\* The key min() and argsort order single-objective individuals by.
FitnessKey(ind) == ind.fitness[1]

\* gp_operators.is_equal_fitness: exact equality.
is_equal_fitness(first_fitness, second_fitness) == first_fitness = second_fitness

\* gp_operators.is_equal_archive: the same set of fitness vectors.
is_equal_archive(first_items, second_items) ==
    {i.fitness : i \in first_items} = {i.fitness : i \in second_items}

\* Pareto dominance, every objective minimised.
Dominates(f, g) ==
    /\ \A k \in 1..Len(f) : f[k] <= g[k]
    /\ \E k \in 1..Len(f) : f[k] < g[k]

\* archive.update if it only added the population to the archive.
archive_update_keeping_dominated(items, individuals) == items \cup Range(individuals)

\* archive.update(population): the non-dominated members of archive + population.
archive_update(items, individuals) ==
    LET all == items \cup Range(individuals)
    IN {i \in all : ~ \E j \in all : Dominates(j.fitness, i.fitness)}

\* gp_operators.duplicates_filtration: archive items whose fitness no member of
\* the population has.
duplicates_filtration(items, individuals) ==
    {i \in items : ~ \E k \in 1..Len(individuals) : individuals[k].fitness = i.fitness}

\* min(individuals, key=fitness): the position of the first minimal element.
argmin(individuals) ==
    CHOOSE i \in 1..Len(individuals) :
        /\ \A j \in 1..Len(individuals) : FitnessKey(individuals[i]) <= FitnessKey(individuals[j])
        /\ \A j \in 1..(i - 1) : FitnessKey(individuals[j]) > FitnessKey(individuals[i])

\* np.argsort of the fitness list, called with the default kind (quicksort),
\* which is not stable: every order of the positions by rising fitness is an
\* order it can return; positions of equal fitness come in any order.
argsort(individuals) ==
    {s \in [1..Len(individuals) -> 1..Len(individuals)] :
        /\ \A a, b \in 1..Len(individuals) : a # b => s[a] # s[b]
        /\ \A a \in 1..(Len(individuals) - 1) :
               FitnessKey(individuals[s[a]]) <= FitnessKey(individuals[s[a + 1]])}

\* The keys of the dict simpler_equivalents, in insertion order, for every
\* order argsort can return.
simpler_equivalents_of_best_ind(best_ind, individuals) ==
    LET keep(i) == /\ is_equal_fitness(best_ind.fitness, individuals[i].fitness)
                   /\ individuals[i].nodes < best_ind.nodes
    IN {SelectSeq(IF s = <<>> THEN <<>> ELSE Tail(s), keep) : s \in argsort(individuals)}

\* min(equivalents, key=equivalents.get): the first key with the fewest nodes.
best_candidate_id(equivalents, individuals) ==
    LET k == CHOOSE a \in 1..Len(equivalents) :
                 /\ \A b \in 1..Len(equivalents) :
                        individuals[equivalents[a]].nodes <= individuals[equivalents[b]].nodes
                 /\ \A b \in 1..(a - 1) :
                        individuals[equivalents[b]].nodes > individuals[equivalents[a]].nodes
    IN equivalents[k]

\* The list simpler_equivalents_of_best_ind looks the equivalents up in:
\* self.population unless get_best_individual hands its own list over.
equivalents_pool(individuals, equivalents_from_current_pop) ==
    IF equivalents_from_current_pop THEN population ELSE individuals

\* get_best_individual, lines 254-256: the key of an equivalent is a position in
\* the pool, and it is read as a position in individuals.
raises_IndexError(individuals, equivalents, pool) ==
    equivalents # <<>> /\ best_candidate_id(equivalents, pool) > Len(individuals)

\* get_best_individual, lines 254-257, when the position is in individuals.
best_ind_of(individuals, equivalents, pool) ==
    IF equivalents # <<>>
    THEN individuals[best_candidate_id(equivalents, pool)]
    ELSE individuals[argmin(individuals)]

\* get_best_individual(individuals, equivalents_from_current_pop) for a
\* non-empty list: what it can return.
get_best_individual(individuals, equivalents_from_current_pop) ==
    LET pool == equivalents_pool(individuals, equivalents_from_current_pop)
    IN {best_ind_of(individuals, equivalents, pool) :
           equivalents \in {e \in simpler_equivalents_of_best_ind(
                                     individuals[argmin(individuals)], pool) :
                               ~ raises_IndexError(individuals, e, pool)}}

\* ------------------------------------------ properties of the optimiser
\* with_elitism if elitism were never switched on.
with_elitism_never == FALSE

with_elitism ==
    IF parameters.multi_objective THEN FALSE ELSE requirements.pop_size > 1

num_of_inds_in_next_pop ==
    IF with_elitism /\ ~ parameters.multi_objective
    THEN requirements.pop_size - 1
    ELSE requirements.pop_size

\* offspring_size if the product were rounded down.
offspring_size_rounded_down ==
    LET default_offspring_rate == IF offspring_rate = 0 THEN RateDen \div 2 ELSE offspring_rate
    IN IF parameters.genetic_scheme_type = "steady_state"
       THEN (requirements.pop_size * default_offspring_rate) \div RateDen
       ELSE requirements.pop_size - 1

\* offspring_size(offspring_rate); a rate of 0 stands for "not given" as well.
offspring_size ==
    LET default_offspring_rate == IF offspring_rate = 0 THEN RateDen \div 2 ELSE offspring_rate
    IN IF parameters.genetic_scheme_type = "steady_state"
       THEN (requirements.pop_size * default_offspring_rate + RateDen - 1) \div RateDen
       ELSE requirements.pop_size - 1

\* gp_operators.num_of_parents_in_crossover: pairs need an even count.
num_of_parents_in_crossover(num_of_final_inds) ==
    IF num_of_final_inds % 2 = 0 THEN num_of_final_inds ELSE num_of_final_inds + 1

\* generation_depth of __init__, line 104: the depth the generation function
\* is given.
generation_depth(reqs, initial_depth) ==
    IF reqs.start_depth = None THEN initial_depth ELSE reqs.start_depth

\* self.max_depth as __init__ sets it.
initial_max_depth(reqs, params) ==
    IF params.with_auto_depth_configuration /\ reqs.start_depth # None /\ reqs.start_depth # 0
    THEN reqs.start_depth
    ELSE reqs.max_depth

\* update_stagnation_counter if a changed best did not reset the counter.
update_stagnation_counter_no_reset ==
    {IF generation_num # 0 THEN num_of_gens_without_improvements + 1 ELSE 0}

\* The best_individual property: what it can return.
best_individual ==
    IF parameters.multi_objective THEN {archive} ELSE get_best_individual(population, TRUE)

\* update_stagnation_counter, read after the archive update of the generation:
\* the values it can return.
update_stagnation_counter ==
    IF generation_num # 0
    THEN {IF (IF parameters.multi_objective
              THEN is_equal_archive(prev_best, archive)
              ELSE is_equal_fitness(prev_best.fitness, best.fitness))
          THEN num_of_gens_without_improvements + 1
          ELSE 0 : best \in best_individual}
    ELSE {0}

\* max_depth_recount if every generation from the step on raised the depth.
max_depth_recount_from_step_on ==
    IF /\ num_of_gens_without_improvements >= parameters.depth_increase_step
       /\ max_depth + 1 <= requirements.max_depth
    THEN max_depth + 1
    ELSE max_depth

\* max_depth_recount if the limit were compared strictly.
max_depth_recount_strict ==
    IF /\ num_of_gens_without_improvements = parameters.depth_increase_step
       /\ max_depth + 1 < requirements.max_depth
    THEN max_depth + 1
    ELSE max_depth

\* max_depth_recount: the new value of self.max_depth.
max_depth_recount ==
    IF /\ num_of_gens_without_improvements = parameters.depth_increase_step
       /\ max_depth + 1 <= requirements.max_depth
    THEN max_depth + 1
    ELSE max_depth

\* selection(types, population, pop_size): pop_size individuals of the pool.
selection(pool, pop_size) == [1..pop_size -> Range(pool)]

\* inheritance(scheme, selection_types, prev_population, new_population, max_size)
inheritance(prev_population, offspring, max_size) ==
    IF parameters.genetic_scheme_type = "steady_state"
    THEN selection(prev_population \o offspring, max_size)
    ELSE {SubSeq(offspring, 1, Min2(max_size, Len(offspring)))}

\* ------------------------------------------------------------------ steps
\* The steps of one generation, in the order optimise writes them.
GenerationOrder ==
    <<"archive_update", "stagnation_check", "depth_adjust", "regularize", "select",
      "reproduce", "evaluate_offspring", "inherit", "record_history", "budget_check">>

\* Leave step `here` for `next`, noting in steps that `here` has been executed.
Goto(here, next) ==
    /\ pc = here
    /\ pc' = next
    /\ steps' = IF \E k \in 1..Len(GenerationOrder) : GenerationOrder[k] = here
                THEN Append(steps, here)
                ELSE steps

\* The run ends with exception `what` raised in step `here`.
Raise(here, what) ==
    /\ pc = here
    /\ pc' = "error"
    /\ error' = what
    /\ steps' = steps

\* ------------------------------------------------------------------- init
\* __init__, line 109.
necessary_attrs ==
    {"add_node", "root_node", "replace_node_with_parents", "update_node", "node_childs"}

\* Chain classes: one with every necessary attribute, and those that lack one.
ChainClasses == {necessary_attrs} \cup {necessary_attrs \ {attr} : attr \in necessary_attrs}

\* The check of lines 109-113 if it let every chain class pass.
has_necessary_attrs_unchecked == TRUE

\* __init__, lines 109-113: the check that guards the rest of the construction.
has_necessary_attrs == necessary_attrs \subseteq chain_class

\* What the fields that __init__ leaves alone start as, and the arguments of optimise.
InitOptimiser(rates) ==
    /\ offspring_rate \in rates
    /\ population_id = 0
    /\ archive = {}
    /\ archive_updated_with = None
    /\ history = [individuals |-> <<>>, archive_history |-> <<>>]
    /\ generation_num = 0
    /\ range_pos = 0
    /\ num_of_gens_without_improvements = None
    /\ prev_best = None
    /\ best_single_model = None
    /\ individuals_to_select = <<>>
    /\ selected_individuals = <<>>
    /\ new_population = <<>>
    /\ time_limit_reached = FALSE
    /\ result = None
    /\ steps = <<>>
    /\ last_change_gen = 0
    /\ best_at_check = None
    /\ tree_nodes = <<>>
    /\ stack = <<>>
    /\ model_chains = <<>>
    /\ chain = None
    /\ new_inds = <<>>
    /\ calls = <<>>
    /\ increases_in_run = 0

\* No tuner is at work while the optimiser runs.
NoTuner ==
    /\ trained_model = None
    /\ best_model = None
    /\ best_score = None
    /\ best_params = None
    /\ best_quality_metric = None
    /\ iteration = 0
    /\ seen = <<>>

\* The rest of the state of an optimiser that __init__ has constructed.
InitRest(rates) == InitOptimiser(rates) /\ NoTuner

\* The state __init__ leaves, for the given sets of configurations: an
\* optimiser whose optimise can be called, or the AttributeError of line 113.
InitWith(reqs_set, params_set, rates, initial_lists) ==
    /\ requirements \in reqs_set
    /\ parameters \in params_set
    /\ chain_class \in ChainClasses
    /\ args = None
    /\ population_is_None \in BOOLEAN
    /\ population \in IF population_is_None THEN {<<>>} ELSE initial_lists
    /\ max_depth = initial_max_depth(requirements, parameters)
    /\ IF has_necessary_attrs
       THEN pc = "make_population" /\ error = ""
       ELSE pc = "error" /\ error = "AttributeError"
    /\ InitRest(rates)

\* Lists of at most n individuals that no evaluation has scored yet.
NewLists(n) == UNION {[1..k -> NewIndividuals] : k \in 0..n}

\* gp_operators.evaluate_individuals on a non-empty list: every individual gets
\* the fitness the objective function returns for it.
evaluate_individuals(individuals) ==
    {[i \in 1..Len(individuals) |-> Ind(individuals[i].nodes, f[i])] :
        f \in [1..Len(individuals) -> FitnessValues(parameters.multi_objective)]}

\* regularization.regularized_population with RegularizationTypesEnum.none.
regularized_population(individuals) == individuals

\* The best the stagnation check looks at, read off the state directly: the
\* least fitness of the population, or the fitness vectors of the archive.
CurrentBest ==
    IF parameters.multi_objective
    THEN {i.fitness : i \in archive}
    ELSE {population[i].fitness : i \in
             {a \in 1..Len(population) : \A b \in 1..Len(population) :
                  FitnessKey(population[a]) <= FitnessKey(population[b])}}

\* ---------------------------------------------------------------- actions
cfg_vars == <<requirements, parameters, offspring_rate, chain_class, args>>

\* optimise, lines 124-127: a population is generated when none was given.
MakePopulation ==
    /\ Goto("make_population", "single_models")
    /\ IF population_is_None
       THEN population' \in [1..requirements.pop_size -> NewIndividuals]
       ELSE population' = population
    /\ population_is_None' = FALSE
    /\ UNCHANGED <<cfg_vars, tuner_vars, reproduce_vars, tree_vars, make_vars, best_single_model, population_id, archive, archive_updated_with, history,
                   max_depth, generation_num, range_pos,
                   num_of_gens_without_improvements, prev_best, individuals_to_select,
                   selected_individuals, new_population, time_limit_reached, error,
                   result, last_change_gen, best_at_check, increases_in_run>>

\* calculate_objective for the chain of each primary model: a fitness, or None
\* when the evaluation fails.
calculate_objective(models) ==
    [1..Len(models) -> FitnessValues(parameters.multi_objective) \cup {NoFitness}]

\* _best_single_models, lines 300-306: the chains whose fitness is not None.
single_models_inds(models, fitness_of) ==
    LET scored == SelectSeq([k \in 1..Len(models) |-> k],
                            LAMBDA k : fitness_of[k] # NoFitness)
    IN [k \in 1..Len(scored) |-> <<models[scored[k]], fitness_of[scored[k]]>>]

\* optimise, lines 131-133, and _best_single_models: best_inds[0] raises
\* IndexError when no chain was scored.
BestSingleModels ==
    /\ IF requirements.add_single_model_chains
       THEN \E fitness_of \in calculate_objective(requirements.primary) :
                LET best_inds == sorted(single_models_inds(requirements.primary, fitness_of))
                IN IF best_inds = <<>>
                   THEN /\ Raise("single_models", "IndexError")
                        /\ UNCHANGED <<best_single_model, requirements>>
                   ELSE /\ Goto("single_models", "evaluate_initial")
                        /\ best_single_model' = Ind(1, best_inds[1][2])
                        /\ requirements' =
                               [requirements EXCEPT !.primary =
                                   [k \in 1..Min2(DefaultNumBest, Len(best_inds)) |->
                                        best_inds[k][1]]]
                        /\ error' = error
       ELSE /\ Goto("single_models", "evaluate_initial")
            /\ UNCHANGED <<best_single_model, requirements, error>>
    /\ UNCHANGED <<parameters, offspring_rate, chain_class, args, tuner_vars, tree_vars, make_vars,
                   reproduce_vars,
                   population_is_None, population, population_id, archive, archive_updated_with, history,
                   max_depth, generation_num, range_pos,
                   num_of_gens_without_improvements, prev_best, individuals_to_select,
                   selected_individuals, new_population, time_limit_reached,
                   result, last_change_gen, best_at_check, increases_in_run>>

\* Lines 135-139 if an empty population were evaluated and recorded like any other.
EvaluateInitial_of_empty ==
    /\ Goto("evaluate_initial", "loop")
    /\ population' \in evaluate_individuals(population)
    /\ history' = [history EXCEPT !.individuals = Append(@, population_id)]
    /\ UNCHANGED <<cfg_vars, tuner_vars, reproduce_vars, tree_vars, make_vars, best_single_model, population_is_None, population_id, archive,
                   archive_updated_with, max_depth, generation_num, range_pos,
                   num_of_gens_without_improvements, prev_best, individuals_to_select,
                   selected_individuals, new_population, time_limit_reached, error,
                   result, last_change_gen, best_at_check, increases_in_run>>

\* optimise, lines 135-139: the initial population is evaluated and recorded.
EvaluateInitial ==
    /\ IF population = <<>>
       THEN /\ Raise("evaluate_initial", "setup")
            /\ UNCHANGED <<population, history>>
       ELSE /\ Goto("evaluate_initial", "loop")
            /\ population' \in evaluate_individuals(population)
            /\ history' = [history EXCEPT !.individuals = Append(@, population_id)]
            /\ error' = error
    /\ UNCHANGED <<cfg_vars, tuner_vars, reproduce_vars, tree_vars, make_vars, best_single_model, population_is_None, population_id, archive,
                   archive_updated_with, max_depth, generation_num, range_pos,
                   num_of_gens_without_improvements, prev_best, individuals_to_select,
                   selected_individuals, new_population, time_limit_reached,
                   result, last_change_gen, best_at_check, increases_in_run>>

\* optimise, line 141: the range hands out the next generation number, or ends.
LoopHead ==
    /\ pc = "loop"
    /\ IF range_pos < requirements.num_of_generations - 1
       THEN /\ pc' = "archive_update"
            /\ generation_num' = range_pos
            /\ range_pos' = range_pos + 1
            /\ steps' = <<>>
       ELSE /\ pc' = "final_archive"
            /\ UNCHANGED <<generation_num, range_pos, steps>>
    /\ UNCHANGED <<cfg_vars, tuner_vars, reproduce_vars, tree_vars, make_vars, best_single_model, population_is_None, population, population_id, archive,
                   archive_updated_with, history, max_depth,
                   num_of_gens_without_improvements, prev_best, individuals_to_select,
                   selected_individuals, new_population, time_limit_reached, error,
                   result, last_change_gen, best_at_check, increases_in_run>>

\* optimise, lines 144-146.
ArchiveUpdate ==
    /\ Goto("archive_update", "stagnation_check")
    /\ IF parameters.multi_objective
       THEN /\ archive' = archive_update(archive, population)
            /\ archive_updated_with' = population_id
            /\ history' = [history EXCEPT !.archive_history = Append(@, population_id)]
       ELSE UNCHANGED <<archive, archive_updated_with, history>>
    /\ UNCHANGED <<cfg_vars, tuner_vars, reproduce_vars, tree_vars, make_vars, best_single_model, population_is_None, population, population_id, max_depth,
                   generation_num, range_pos, num_of_gens_without_improvements,
                   prev_best, individuals_to_select, selected_individuals,
                   new_population, time_limit_reached, error, result,
                   last_change_gen, best_at_check, increases_in_run>>

\* optimise, line 148.
StagnationCheck ==
    /\ Goto("stagnation_check", "depth_adjust")
    /\ num_of_gens_without_improvements' \in update_stagnation_counter
    /\ last_change_gen' = IF generation_num = 0 THEN 0
                          ELSE IF best_at_check # CurrentBest THEN generation_num
                          ELSE last_change_gen
    /\ best_at_check' = CurrentBest
    /\ increases_in_run' = IF num_of_gens_without_improvements' = 0 THEN 0
                           ELSE increases_in_run
    /\ UNCHANGED <<cfg_vars, tuner_vars, reproduce_vars, tree_vars, make_vars, best_single_model, population_is_None, population, population_id, archive,
                   archive_updated_with, history, max_depth, generation_num, range_pos,
                   prev_best, individuals_to_select, selected_individuals,
                   new_population, time_limit_reached, error, result>>

\* Lines 152-153 if the depth were recounted in the first generation too.
DepthAdjust_in_every_generation ==
    /\ Goto("depth_adjust", "regularize")
    /\ max_depth' = IF parameters.with_auto_depth_configuration
                    THEN max_depth_recount
                    ELSE max_depth
    /\ increases_in_run' = IF max_depth' # max_depth THEN increases_in_run + 1
                           ELSE increases_in_run
    /\ UNCHANGED <<cfg_vars, tuner_vars, reproduce_vars, tree_vars, make_vars, best_single_model, population_is_None, population, population_id, archive,
                   archive_updated_with, history, generation_num, range_pos,
                   num_of_gens_without_improvements, prev_best, individuals_to_select,
                   selected_individuals, new_population, time_limit_reached, error,
                   result, last_change_gen, best_at_check>>

\* optimise, lines 152-153.
DepthAdjust ==
    /\ Goto("depth_adjust", "regularize")
    /\ max_depth' = IF parameters.with_auto_depth_configuration /\ generation_num # 0
                    THEN max_depth_recount
                    ELSE max_depth
    /\ increases_in_run' = IF max_depth' # max_depth THEN increases_in_run + 1
                           ELSE increases_in_run
    /\ UNCHANGED <<cfg_vars, tuner_vars, reproduce_vars, tree_vars, make_vars, best_single_model, population_is_None, population, population_id, archive,
                   archive_updated_with, history, generation_num, range_pos,
                   num_of_gens_without_improvements, prev_best, individuals_to_select,
                   selected_individuals, new_population, time_limit_reached, error,
                   result, last_change_gen, best_at_check>>

\* optimise, lines 155-163.
Regularize ==
    /\ Goto("regularize", "select")
    /\ LET regularized == regularized_population(population)
       IN individuals_to_select' =
              IF parameters.multi_objective
              THEN regularized \o SetToSeq(duplicates_filtration(archive, regularized))
              ELSE regularized
    /\ UNCHANGED <<cfg_vars, tuner_vars, reproduce_vars, tree_vars, make_vars, best_single_model, population_is_None, population, population_id, archive,
                   archive_updated_with, history, max_depth, generation_num, range_pos,
                   num_of_gens_without_improvements, prev_best, selected_individuals,
                   new_population, time_limit_reached, error, result,
                   last_change_gen, best_at_check, increases_in_run>>

\* optimise, lines 165-169.
Select ==
    LET num_of_parents == num_of_parents_in_crossover(offspring_size)
    IN /\ IF num_of_parents > 0 /\ individuals_to_select = <<>>
          THEN /\ Raise("select", "selection")
               /\ UNCHANGED selected_individuals
          ELSE /\ Goto("select", "reproduce")
               /\ selected_individuals' \in selection(individuals_to_select, num_of_parents)
               /\ error' = error
       /\ individuals_to_select' = <<>>
       /\ UNCHANGED <<cfg_vars, tuner_vars, reproduce_vars, tree_vars, make_vars, best_single_model, population_is_None, population, population_id, archive,
                      archive_updated_with, history, max_depth, generation_num,
                      range_pos, num_of_gens_without_improvements, prev_best,
                      new_population, time_limit_reached, result, last_change_gen,
                      best_at_check, increases_in_run>>

\* reproduce(first, second): with a second parent crossover hands over two
\* chains, without one the first parent alone is taken; mutation hands over
\* one chain for each of them.
reproduce(with_second) ==
    IF with_second THEN [1..2 -> NewIndividuals] ELSE [1..1 -> NewIndividuals]

\* optimise, lines 171-175: the parents are taken two by two.
Reproduce ==
    /\ IF Len(selected_individuals) % 2 # 0
       THEN /\ Raise("reproduce", "IndexError")
            /\ UNCHANGED new_population
       ELSE /\ Goto("reproduce", "evaluate_offspring")
            /\ \E pairs \in [1..(Len(selected_individuals) \div 2) -> reproduce(TRUE)] :
                   new_population' = [i \in 1..Len(selected_individuals) |->
                                          pairs[(i + 1) \div 2][2 - (i % 2)]]
            /\ error' = error
    /\ selected_individuals' = <<>>
    /\ UNCHANGED <<cfg_vars, tuner_vars, reproduce_vars, tree_vars, make_vars, best_single_model, population_is_None, population, population_id, archive,
                   archive_updated_with, history, max_depth, generation_num, range_pos,
                   num_of_gens_without_improvements, prev_best, individuals_to_select,
                   time_limit_reached, result, last_change_gen, best_at_check, increases_in_run>>

\* Line 177 if the offspring went on to inheritance without being evaluated.
EvaluateOffspring_skipped ==
    /\ Goto("evaluate_offspring", "inherit")
    /\ UNCHANGED <<cfg_vars, tuner_vars, reproduce_vars, tree_vars, make_vars, best_single_model, population_is_None, population, population_id, archive,
                   archive_updated_with, history, max_depth, generation_num, range_pos,
                   num_of_gens_without_improvements, prev_best, individuals_to_select,
                   selected_individuals, new_population, time_limit_reached, error,
                   result, last_change_gen, best_at_check, increases_in_run>>

\* optimise, line 177.
EvaluateOffspring ==
    /\ IF new_population = <<>>
       THEN /\ Raise("evaluate_offspring", "setup")
            /\ UNCHANGED new_population
       ELSE /\ Goto("evaluate_offspring", "inherit")
            /\ new_population' \in evaluate_individuals(new_population)
            /\ error' = error
    /\ UNCHANGED <<cfg_vars, tuner_vars, reproduce_vars, tree_vars, make_vars, best_single_model, population_is_None, population, population_id, archive,
                   archive_updated_with, history, max_depth, generation_num, range_pos,
                   num_of_gens_without_improvements, prev_best, individuals_to_select,
                   selected_individuals, time_limit_reached, result, last_change_gen,
                   best_at_check, increases_in_run>>

\* Lines 179-186 if the history record of line 188 were left out after them.
Inherit_without_record ==
    /\ Goto("inherit", "budget_check")
    /\ prev_best' \in best_individual
    /\ \E next_population \in inheritance(population, new_population, num_of_inds_in_next_pop) :
           population' = IF ~ parameters.multi_objective /\ with_elitism
                         THEN Append(next_population, prev_best')
                         ELSE next_population
    /\ population_id' = population_id + 1
    /\ new_population' = <<>>
    /\ UNCHANGED <<cfg_vars, tuner_vars, reproduce_vars, tree_vars, make_vars, best_single_model, population_is_None, archive, archive_updated_with, history,
                   max_depth, generation_num, range_pos,
                   num_of_gens_without_improvements, individuals_to_select,
                   selected_individuals, time_limit_reached, error, result,
                   last_change_gen, best_at_check, increases_in_run>>

\* Lines 179-186 if inheritance filled the list it was given as prev_population
\* instead of handing over a new one.
Inherit_in_place ==
    /\ Goto("inherit", "record_history")
    /\ prev_best' \in best_individual
    /\ \E next_population \in inheritance(population, new_population, num_of_inds_in_next_pop) :
           population' = IF ~ parameters.multi_objective /\ with_elitism
                         THEN Append(next_population, prev_best')
                         ELSE next_population
    /\ new_population' = <<>>
    /\ UNCHANGED <<cfg_vars, tuner_vars, reproduce_vars, tree_vars, make_vars, best_single_model, population_is_None, population_id, archive,
                   archive_updated_with, history, max_depth, generation_num, range_pos,
                   num_of_gens_without_improvements, individuals_to_select,
                   selected_individuals, time_limit_reached, error, result,
                   last_change_gen, best_at_check, increases_in_run>>

\* optimise, lines 179-186: prev_best, inheritance, the elitism append.
Inherit ==
    /\ Goto("inherit", "record_history")
    /\ prev_best' \in best_individual
    /\ \E next_population \in inheritance(population, new_population, num_of_inds_in_next_pop) :
           population' = IF ~ parameters.multi_objective /\ with_elitism
                         THEN Append(next_population, prev_best')
                         ELSE next_population
    /\ population_id' = population_id + 1
    /\ new_population' = <<>>
    /\ UNCHANGED <<cfg_vars, tuner_vars, reproduce_vars, tree_vars, make_vars, best_single_model, population_is_None, archive, archive_updated_with, history,
                   max_depth, generation_num, range_pos,
                   num_of_gens_without_improvements, individuals_to_select,
                   selected_individuals, time_limit_reached, error, result,
                   last_change_gen, best_at_check, increases_in_run>>

\* optimise, lines 188-190: the history record, then log_info_about_best, whose
\* min() raises on an empty population.
RecordHistory ==
    /\ history' = [history EXCEPT !.individuals = Append(@, population_id)]
    /\ IF ~ parameters.multi_objective /\ population = <<>>
       THEN Raise("record_history", "ValueError")
       ELSE Goto("record_history", "budget_check") /\ error' = error
    /\ UNCHANGED <<cfg_vars, tuner_vars, reproduce_vars, tree_vars, make_vars, best_single_model, population_is_None, population, population_id, archive,
                   archive_updated_with, max_depth, generation_num, range_pos,
                   num_of_gens_without_improvements, prev_best, individuals_to_select,
                   selected_individuals, new_population, time_limit_reached, result,
                   last_change_gen, best_at_check, increases_in_run>>

\* Lines 192-193 if the loop went on whatever the timer answers.
BudgetCheck_no_break ==
    /\ pc = "budget_check"
    /\ steps' = Append(steps, "budget_check")
    /\ time_limit_reached' \in BOOLEAN
    /\ pc' = "loop"
    /\ UNCHANGED <<cfg_vars, tuner_vars, reproduce_vars, tree_vars, make_vars, best_single_model, population_is_None, population, population_id, archive,
                   archive_updated_with, history, max_depth, generation_num, range_pos,
                   num_of_gens_without_improvements, prev_best, individuals_to_select,
                   selected_individuals, new_population, error, result,
                   last_change_gen, best_at_check, increases_in_run>>

\* optimise, lines 192-193: the timer answers; the loop breaks when it says yes.
BudgetCheck ==
    /\ pc = "budget_check"
    /\ steps' = Append(steps, "budget_check")
    /\ \E reached \in BOOLEAN :
           /\ time_limit_reached' = reached
           /\ pc' = IF reached THEN "final_archive" ELSE "loop"
    /\ UNCHANGED <<cfg_vars, tuner_vars, reproduce_vars, tree_vars, make_vars, best_single_model, population_is_None, population, population_id, archive,
                   archive_updated_with, history, max_depth, generation_num, range_pos,
                   num_of_gens_without_improvements, prev_best, individuals_to_select,
                   selected_individuals, new_population, error, result,
                   last_change_gen, best_at_check, increases_in_run>>

\* Lines 195-197 if the last archive were not copied into the history.
FinalArchive_without_snapshot ==
    /\ Goto("final_archive", "result")
    /\ IF parameters.multi_objective
       THEN /\ archive' = archive_update(archive, population)
            /\ archive_updated_with' = population_id
       ELSE UNCHANGED <<archive, archive_updated_with>>
    /\ UNCHANGED <<cfg_vars, tuner_vars, reproduce_vars, tree_vars, make_vars, best_single_model, population_is_None, population, population_id, history,
                   max_depth, generation_num, range_pos,
                   num_of_gens_without_improvements, prev_best, individuals_to_select,
                   selected_individuals, new_population, time_limit_reached, error,
                   result, last_change_gen, best_at_check, increases_in_run>>

\* optimise, lines 195-197.
FinalArchive ==
    /\ Goto("final_archive", "result")
    /\ IF parameters.multi_objective
       THEN /\ archive' = archive_update(archive, population)
            /\ archive_updated_with' = population_id
            /\ history' = [history EXCEPT !.archive_history = Append(@, population_id)]
       ELSE UNCHANGED <<archive, archive_updated_with, history>>
    /\ UNCHANGED <<cfg_vars, tuner_vars, reproduce_vars, tree_vars, make_vars, best_single_model, population_is_None, population, population_id, max_depth,
                   generation_num, range_pos, num_of_gens_without_improvements,
                   prev_best, individuals_to_select, selected_individuals,
                   new_population, time_limit_reached, error, result,
                   last_change_gen, best_at_check, increases_in_run>>

\* result_individual if the baseline were never looked at.
result_individual_without_baseline == best_individual

\* result_individual: what it can return.
result_individual ==
    IF ~ parameters.multi_objective
    THEN {IF /\ requirements.add_single_model_chains
             /\ best_single_model.fitness[1] <= best.fitness[1]
          THEN best_single_model
          ELSE best : best \in best_individual}
    ELSE {archive}

\* optimise, lines 199-203.
Result ==
    /\ Goto("result", "done")
    /\ result' \in result_individual
    /\ UNCHANGED <<cfg_vars, tuner_vars, reproduce_vars, tree_vars, make_vars, best_single_model, population_is_None, population, population_id, archive,
                   archive_updated_with, history, max_depth, generation_num, range_pos,
                   num_of_gens_without_improvements, prev_best, individuals_to_select,
                   selected_individuals, new_population, time_limit_reached, error,
                   last_change_gen, best_at_check, increases_in_run>>

Next ==
    \/ MakePopulation
    \/ BestSingleModels
    \/ EvaluateInitial
    \/ LoopHead
    \/ ArchiveUpdate
    \/ StagnationCheck
    \/ DepthAdjust
    \/ Regularize
    \/ Select
    \/ Reproduce
    \/ EvaluateOffspring
    \/ Inherit
    \/ RecordHistory
    \/ BudgetCheck
    \/ FinalArchive
    \/ Result

\* ---------------------------------------------------------- specifications
Schemes == {"generational", "steady_state"}

\* The depth settings of a run that leaves the depth alone.
FixedDepthParameters(multi_objectives) ==
    [genetic_scheme_type : Schemes, multi_objective : multi_objectives,
     with_auto_depth_configuration : {FALSE},
     depth_increase_step : {DefaultDepthIncreaseStep}]

\* Runs over both schemes and modes, started from no population or from any
\* given list, with the depth left alone.
Init ==
    InitWith([pop_size : 1..MaxPop, num_of_generations : 1..MaxGens,
              max_depth : {MaxDepth}, start_depth : {None},
              add_single_model_chains : {FALSE}, primary : {PrimaryModels}],
             FixedDepthParameters(BOOLEAN), {0}, NewLists(MaxPop))

Spec == Init /\ [][Next]_vars

\* One generation at every population size up to MaxSize, the population generated.
InitSize ==
    InitWith([pop_size : 1..MaxSize, num_of_generations : {2},
              max_depth : {MaxDepth}, start_depth : {None},
              add_single_model_chains : {FALSE}, primary : {PrimaryModels}],
             FixedDepthParameters(BOOLEAN), {0}, {})

SpecSize == InitSize /\ [][Next]_vars

\* Runs of DepthGens generations over every depth setting: single-objective at
\* every population size and scheme, multi-objective with one individual.
DepthRequirements(pop_sizes) ==
    [pop_size : pop_sizes, num_of_generations : {DepthGens},
     max_depth : 1..MaxDepth, start_depth : {None} \cup 0..(MaxDepth + 1),
     add_single_model_chains : {FALSE}, primary : {PrimaryModels}]

InitDepth ==
    \/ InitWith(DepthRequirements(1..MaxPop),
                [genetic_scheme_type : Schemes, multi_objective : {FALSE},
                 with_auto_depth_configuration : BOOLEAN,
                 depth_increase_step : 1..MaxStep],
                {0}, {})
    \/ InitWith(DepthRequirements({1}),
                [genetic_scheme_type : {"steady_state"}, multi_objective : {TRUE},
                 with_auto_depth_configuration : {TRUE},
                 depth_increase_step : {DefaultDepthIncreaseStep}],
                {0}, {})

SpecDepth == InitDepth /\ [][Next]_vars

\* Short single-objective runs over every depth setting with the smallest
\* steps: a depth_increase_step of 0 is what the counter of the first
\* generation equals.
InitDepthEarly ==
    InitWith([pop_size : 1..MaxPop, num_of_generations : 1..MaxGens,
              max_depth : 1..MaxDepth, start_depth : {None} \cup 0..(MaxDepth + 1),
              add_single_model_chains : {FALSE}, primary : {PrimaryModels}],
             [genetic_scheme_type : Schemes, multi_objective : {FALSE},
              with_auto_depth_configuration : BOOLEAN,
              depth_increase_step : 0..1],
             {0}, {})

SpecDepthEarly == InitDepthEarly /\ [][Next]_vars

\* Single-objective runs of DepthGens generations that start at depth 1 with
\* room for more than one increase below the limit.
InitDepthRun ==
    InitWith([pop_size : 1..MaxPop, num_of_generations : {DepthGens},
              max_depth : {MaxDepth + 1}, start_depth : {1},
              add_single_model_chains : {FALSE}, primary : {PrimaryModels}],
             [genetic_scheme_type : Schemes, multi_objective : {FALSE},
              with_auto_depth_configuration : {TRUE},
              depth_increase_step : 0..(MaxStep - 1)],
             {0}, {})

SpecDepthRun == InitDepthRun /\ [][Next]_vars

\* Short runs with and without the single-model baselines, the population generated.
InitSingle ==
    InitWith([pop_size : {MaxPop}, num_of_generations : 1..(MaxGens - 1),
              max_depth : {MaxDepth}, start_depth : {None},
              add_single_model_chains : BOOLEAN, primary : {PrimaryModels}],
             FixedDepthParameters(BOOLEAN), {0}, {})

SpecSingle == InitSingle /\ [][Next]_vars

\* One generation at every population size up to MaxSize and every offspring
\* rate from 0 (or not given) to 1, single-objective, the population generated.
InitRate ==
    InitWith([pop_size : 1..MaxSize, num_of_generations : {2},
              max_depth : {MaxDepth}, start_depth : {None},
              add_single_model_chains : {FALSE}, primary : {PrimaryModels}],
             FixedDepthParameters({FALSE}), 0..RateDen, {})

SpecRate == InitRate /\ [][Next]_vars

\* ------------------------------------- get_best_individual called on its own
\* Lists of at most n individuals that a single-objective evaluation has scored.
EvaluatedLists(n) ==
    UNION {[1..k -> {Ind(nodes, fitness) : nodes \in 1..MaxNodes,
                                          fitness \in FitnessValues(FALSE)}] : k \in 0..n}

\* A constructed single-objective optimiser with any population, and any
\* arguments for get_best_individual.
InitBest ==
    /\ requirements = [pop_size |-> MaxList, num_of_generations |-> 1,
                       max_depth |-> MaxDepth, start_depth |-> None,
                       add_single_model_chains |-> FALSE, primary |-> PrimaryModels]
    /\ parameters = [genetic_scheme_type |-> "generational", multi_objective |-> FALSE,
                     with_auto_depth_configuration |-> FALSE,
                     depth_increase_step |-> DefaultDepthIncreaseStep]
    /\ chain_class = necessary_attrs
    /\ args \in [individuals : EvaluatedLists(MaxList),
                  equivalents_from_current_pop : BOOLEAN]
    /\ population_is_None = FALSE
    /\ population \in EvaluatedLists(MaxList)
    /\ max_depth = initial_max_depth(requirements, parameters)
    /\ pc = "get_best_individual"
    /\ error = ""
    /\ InitRest({0})

\* get_best_individual, lines 247-257: min() of an empty list raises ValueError,
\* a position outside individuals raises IndexError.
GetBestIndividual ==
    /\ pc = "get_best_individual"
    /\ LET individuals == args.individuals
           pool == equivalents_pool(individuals, args.equivalents_from_current_pop)
       IN IF individuals = <<>>
          THEN /\ Raise("get_best_individual", "ValueError")
               /\ UNCHANGED result
          ELSE \E equivalents \in simpler_equivalents_of_best_ind(
                                      individuals[argmin(individuals)], pool) :
                   IF raises_IndexError(individuals, equivalents, pool)
                   THEN /\ Raise("get_best_individual", "IndexError")
                        /\ UNCHANGED result
                   ELSE /\ pc' = "returned"
                        /\ result' = best_ind_of(individuals, equivalents, pool)
                        /\ UNCHANGED <<error, steps>>
    /\ UNCHANGED <<cfg_vars, tuner_vars, reproduce_vars, tree_vars, make_vars, best_single_model, population_is_None, population, population_id, archive,
                   archive_updated_with, history, max_depth, generation_num, range_pos,
                   num_of_gens_without_improvements, prev_best, individuals_to_select,
                   selected_individuals, new_population, time_limit_reached,
                   last_change_gen, best_at_check, increases_in_run>>

NextBest == GetBestIndividual

SpecBest == InitBest /\ [][NextBest]_vars

\* ----------------------------------- the reproduction step entered on its own
\* A constructed single-objective optimiser at line 171, with any list of
\* selected individuals.
InitReproduce ==
    /\ requirements \in [pop_size : {MaxSize}, num_of_generations : {2},
                          max_depth : 1..MaxDepth, start_depth : {None},
                          add_single_model_chains : {FALSE}, primary : {PrimaryModels}]
    /\ parameters \in FixedDepthParameters({FALSE})
    /\ chain_class = necessary_attrs
    /\ args \in [selected_individuals : EvaluatedLists(MaxSize)]
    /\ population_is_None = FALSE
    /\ population = <<>>
    /\ max_depth = initial_max_depth(requirements, parameters)
    /\ pc = "reproduce"
    /\ error = ""
    /\ offspring_rate = 0
    /\ population_id = 0
    /\ archive = {}
    /\ archive_updated_with = None
    /\ history = [individuals |-> <<>>, archive_history |-> <<>>]
    /\ generation_num = 0
    /\ range_pos = 1
    /\ num_of_gens_without_improvements = 0
    /\ prev_best = None
    /\ best_single_model = None
    /\ individuals_to_select = <<>>
    /\ selected_individuals = args.selected_individuals
    /\ new_population = <<>>
    /\ time_limit_reached = FALSE
    /\ result = None
    /\ steps = SubSeq(GenerationOrder, 1, 5)
    /\ last_change_gen = 0
    /\ best_at_check = None
    /\ tree_nodes = <<>>
    /\ stack = <<>>
    /\ model_chains = <<>>
    /\ chain = None
    /\ new_inds = <<>>
    /\ calls = <<>>
    /\ increases_in_run = 0
    /\ trained_model = None
    /\ best_model = None
    /\ best_score = None
    /\ best_params = None
    /\ best_quality_metric = None
    /\ iteration = 0
    /\ seen = <<>>

NextReproduce == Reproduce

SpecReproduce == InitReproduce /\ [][NextReproduce]_vars

\* ------------------------------------------- the three kinds of initial_chain
\* What __init__ can be given as initial_chain: None, one chain, or a list of
\* chains. chains holds the chain, or the chains of the list.
InitialChains ==
    {[kind |-> "none", chains |-> <<>>]}
        \cup {[kind |-> "single", chains |-> <<new_chain>>] : new_chain \in NewIndividuals}
        \cup {[kind |-> "list", chains |-> list] : list \in NewLists(MaxPop)}

\* Lines 118-121 if a single chain were taken as a list of one.
initial_population_unreplicated(initial_chain, pop_size) == initial_chain.chains

\* __init__, lines 118-121: self.population; <<>> stands for None as well,
\* which population_is_None tells apart.
initial_population(initial_chain, pop_size) ==
    IF initial_chain.kind = "single"
    THEN [i \in 1..pop_size |-> initial_chain.chains[1]]
    ELSE initial_chain.chains

\* Single-objective runs from every kind of initial_chain.
InitSeed ==
    /\ requirements \in [pop_size : 1..MaxPop, num_of_generations : 1..MaxGens,
                          max_depth : {MaxDepth}, start_depth : {None},
                          add_single_model_chains : {FALSE}, primary : {PrimaryModels}]
    /\ parameters \in FixedDepthParameters({FALSE})
    /\ chain_class = necessary_attrs
    /\ args \in [initial_chain : InitialChains]
    /\ population_is_None = (args.initial_chain.kind = "none")
    /\ population = initial_population(args.initial_chain, requirements.pop_size)
    /\ max_depth = initial_max_depth(requirements, parameters)
    /\ pc = "make_population"
    /\ error = ""
    /\ InitRest({0})

SpecSeed == InitSeed /\ [][Next]_vars

\* ------------------------------------------- _make_population step by step
\* A constructed optimiser that was given no initial chain, at line 125;
\* args.valid are the chains constraint_function accepts.
InitMake ==
    /\ requirements \in [pop_size : 1..MaxSize, num_of_generations : {1},
                          max_depth : {MaxDepth}, start_depth : {None},
                          add_single_model_chains : {FALSE}, primary : {PrimaryModels}]
    /\ parameters \in FixedDepthParameters({FALSE})
    /\ chain_class = necessary_attrs
    /\ args \in [valid : SUBSET NewIndividuals]
    /\ population_is_None = TRUE
    /\ population = <<>>
    /\ max_depth = initial_max_depth(requirements, parameters)
    /\ pc = "make_population_loop"
    /\ error = ""
    /\ InitRest({0})

\* gp_operators.random_chain through self.chain_generation_function.
chain_generation_function == NewIndividuals

\* constraint.constraint_function(chain)
constraint_function(new_chain) == new_chain \in args.valid

\* _make_population, lines 290-291: the list is not full, a chain is generated.
GenerateChain ==
    /\ pc = "make_population_loop"
    /\ Len(model_chains) < requirements.pop_size
    /\ chain' \in chain_generation_function
    /\ pc' = "constraint"
    /\ UNCHANGED <<cfg_vars, tuner_vars, reproduce_vars, tree_vars, model_chains, best_single_model,
                   population_is_None, population,
                   population_id, archive, archive_updated_with, history, max_depth,
                   generation_num, range_pos, num_of_gens_without_improvements,
                   prev_best, individuals_to_select, selected_individuals,
                   new_population, time_limit_reached, error, result, steps,
                   last_change_gen, best_at_check, increases_in_run>>

\* Lines 292-293 if every generated chain were kept.
CheckConstraint_keeping_all ==
    /\ pc = "constraint"
    /\ model_chains' = Append(model_chains, chain)
    /\ pc' = "make_population_loop"
    /\ UNCHANGED <<cfg_vars, tuner_vars, reproduce_vars, tree_vars, chain, best_single_model,
                   population_is_None, population,
                   population_id, archive, archive_updated_with, history, max_depth,
                   generation_num, range_pos, num_of_gens_without_improvements,
                   prev_best, individuals_to_select, selected_individuals,
                   new_population, time_limit_reached, error, result, steps,
                   last_change_gen, best_at_check, increases_in_run>>

\* _make_population, lines 292-293: the chain is kept if it passes the constraint.
CheckConstraint ==
    /\ pc = "constraint"
    /\ model_chains' = IF constraint_function(chain)
                       THEN Append(model_chains, chain)
                       ELSE model_chains
    /\ pc' = "make_population_loop"
    /\ UNCHANGED <<cfg_vars, tuner_vars, reproduce_vars, tree_vars, chain, best_single_model,
                   population_is_None, population,
                   population_id, archive, archive_updated_with, history, max_depth,
                   generation_num, range_pos, num_of_gens_without_improvements,
                   prev_best, individuals_to_select, selected_individuals,
                   new_population, time_limit_reached, error, result, steps,
                   last_change_gen, best_at_check, increases_in_run>>

\* _make_population, lines 290 and 294, and optimise, line 125: the list is
\* full and becomes the population.
ReturnPopulation ==
    /\ pc = "make_population_loop"
    /\ ~ (Len(model_chains) < requirements.pop_size)
    /\ population' = model_chains
    /\ population_is_None' = FALSE
    /\ pc' = "single_models"
    /\ UNCHANGED <<cfg_vars, tuner_vars, reproduce_vars, tree_vars, make_vars, best_single_model,
                   population_id, archive, archive_updated_with, history, max_depth,
                   generation_num, range_pos, num_of_gens_without_improvements,
                   prev_best, individuals_to_select, selected_individuals,
                   new_population, time_limit_reached, error, result, steps,
                   last_change_gen, best_at_check, increases_in_run>>

NextMake ==
    \/ GenerateChain
    \/ CheckConstraint
    \/ ReturnPopulation

SpecMake == InitMake /\ [][NextMake]_vars

\* ------------------------------------------------ reproduce call by call
\* An optimiser in the loop of lines 171-175 calls reproduce with one or two
\* selected individuals; self.max_depth is any depth up to the limit.
InitOffspring ==
    /\ requirements \in [pop_size : {MaxPop}, num_of_generations : {2},
                          max_depth : {MaxDepth}, start_depth : {None},
                          add_single_model_chains : {FALSE}, primary : {PrimaryModels}]
    /\ parameters \in FixedDepthParameters({FALSE})
    /\ chain_class = necessary_attrs
    /\ args \in [selected_individual_first : EvaluatedLists(1) \ {<<>>},
                  selected_individual_second : EvaluatedLists(1)]
    /\ population_is_None = FALSE
    /\ population = <<>>
    /\ max_depth \in 1..MaxDepth
    /\ pc = "reproduce_call"
    /\ error = ""
    /\ InitRest({0})

\* crossover(types, first, second, crossover_prob, max_depth): two new chains.
crossover(first, second) == [1..2 -> NewIndividuals]

\* mutation(types, chain_generation_params, chain, requirements, max_depth):
\* one new chain.
mutation(new_ind) == NewIndividuals

\* The record of one call: the depth bound and the chains it was given, the
\* chains it handed over.
Call(op, bound, given, out) == [op |-> op, max_depth |-> bound, given |-> given, out |-> out]

\* reproduce, lines 272-279: crossover when there is a second individual,
\* else the first alone; a missing second individual is an empty list here.
ReproduceCrossover ==
    /\ pc = "reproduce_call"
    /\ pc' = "mutation"
    /\ IF args.selected_individual_second # <<>>
       THEN LET first == args.selected_individual_first[1]
                second == args.selected_individual_second[1]
            IN \E out \in crossover(first, second) :
                   /\ new_inds' = out
                   /\ calls' = <<Call("crossover", max_depth, <<first, second>>, out)>>
       ELSE /\ new_inds' = args.selected_individual_first
            /\ calls' = calls
    /\ UNCHANGED <<cfg_vars, tuner_vars, tree_vars, make_vars, best_single_model,
                   population_is_None, population,
                   population_id, archive, archive_updated_with, history, max_depth,
                   generation_num, range_pos, num_of_gens_without_improvements,
                   prev_best, individuals_to_select, selected_individuals,
                   new_population, time_limit_reached, error, result, steps,
                   last_change_gen, best_at_check, increases_in_run>>

\* Lines 281-284 if only the first of new_inds were mutated.
ReproduceMutation_of_first_only ==
    /\ pc = "mutation"
    /\ pc' = "reproduce_return"
    /\ \E out \in mutation(new_inds[1]) :
           /\ new_inds' = [new_inds EXCEPT ![1] = out]
           /\ calls' = Append(calls, Call("mutation", max_depth, <<new_inds[1]>>, <<out>>))
    /\ UNCHANGED <<cfg_vars, tuner_vars, tree_vars, make_vars, best_single_model,
                   population_is_None, population,
                   population_id, archive, archive_updated_with, history, max_depth,
                   generation_num, range_pos, num_of_gens_without_improvements,
                   prev_best, individuals_to_select, selected_individuals,
                   new_population, time_limit_reached, error, result, steps,
                   last_change_gen, best_at_check, increases_in_run>>

\* reproduce, lines 281-284: mutation of every chain of new_inds, in order.
ReproduceMutation ==
    /\ pc = "mutation"
    /\ pc' = "reproduce_return"
    /\ \E out \in [1..Len(new_inds) -> NewIndividuals] :
           /\ \A i \in 1..Len(new_inds) : out[i] \in mutation(new_inds[i])
           /\ new_inds' = out
           /\ calls' = calls \o [i \in 1..Len(new_inds) |->
                                    Call("mutation", max_depth, <<new_inds[i]>>, <<out[i]>>)]
    /\ UNCHANGED <<cfg_vars, tuner_vars, tree_vars, make_vars, best_single_model,
                   population_is_None, population,
                   population_id, archive, archive_updated_with, history, max_depth,
                   generation_num, range_pos, num_of_gens_without_improvements,
                   prev_best, individuals_to_select, selected_individuals,
                   new_population, time_limit_reached, error, result, steps,
                   last_change_gen, best_at_check, increases_in_run>>

\* reproduce, line 286, and optimise, line 175: the tuple extends new_population.
ReproduceReturn ==
    /\ pc = "reproduce_return"
    /\ pc' = "returned"
    /\ new_population' = new_population \o new_inds
    /\ UNCHANGED <<cfg_vars, tuner_vars, reproduce_vars, tree_vars, make_vars, best_single_model,
                   population_is_None, population,
                   population_id, archive, archive_updated_with, history, max_depth,
                   generation_num, range_pos, num_of_gens_without_improvements,
                   prev_best, individuals_to_select, selected_individuals,
                   time_limit_reached, error, result, steps,
                   last_change_gen, best_at_check, increases_in_run>>

NextOffspring ==
    \/ ReproduceCrossover
    \/ ReproduceMutation
    \/ ReproduceReturn

SpecOffspring == InitOffspring /\ [][NextOffspring]_vars

\* ------------------------------------------------------------ the tuners
\* (core/models/tuning/tuners.py)
\* Tuner.is_score_better: operator.gt for classification, operator.lt for
\* regression.
is_score_better(task_type, previous, current) ==
    IF task_type = "classification" THEN current > previous ELSE current < previous

\* is_better_than_default if a score equal to the default counted as better.
is_better_than_default_or_equal(score) ==
    IF args.task_type = "classification"
    THEN score >= args.default_score
    ELSE score <= args.default_score

\* Tuner.is_better_than_default
is_better_than_default(score) == is_score_better(args.task_type, args.default_score, score)

\* What tune returns: a pair of parameters and model.
TunedResult == [params |-> "best_params", model |-> "best_estimator"]

DefaultResult == [params |-> "default_params", model |-> "trained_model"]

NoneResult == [params |-> "None", model |-> "None"]

\* The try block shared by _sklearn_tune (lines 193-202), TPETuner.tune (lines
\* 330-342) and FLOTuner.tune (lines 347-361): the search or the scoring of
\* its best estimator can raise ValueError.
tune_outcome ==
    IF args.raises # "nothing"
    THEN NoneResult
    ELSE IF is_better_than_default(args.new_score)
    THEN TunedResult
    ELSE DefaultResult

\* A tuner constructed for a task with its default score, and what the search
\* it is about to run will find or raise.
InitTune ==
    /\ requirements = [pop_size |-> 1, num_of_generations |-> 1,
                       max_depth |-> MaxDepth, start_depth |-> None,
                       add_single_model_chains |-> FALSE, primary |-> PrimaryModels]
    /\ parameters \in FixedDepthParameters({FALSE})
    /\ chain_class = necessary_attrs
    /\ args \in [tuner : {"SklearnTuner", "TPETuner", "FLOTuner"},
                  task_type : {"classification", "regression"},
                  default_score : 0..MaxScore,
                  new_score : 0..MaxScore,
                  raises : {"nothing", "search", "score"}]
    /\ population_is_None = TRUE
    /\ population = <<>>
    /\ max_depth = initial_max_depth(requirements, parameters)
    /\ pc = "tune"
    /\ error = ""
    /\ InitRest({0})

\* SklearnTuner._sklearn_tune, lines 192-202.
SklearnTune ==
    /\ pc = "tune"
    /\ args.tuner = "SklearnTuner"
    /\ pc' = "returned"
    /\ result' = tune_outcome
    /\ UNCHANGED <<cfg_vars, tuner_vars, reproduce_vars, tree_vars, make_vars, best_single_model,
                   population_is_None, population,
                   population_id, archive, archive_updated_with, history, max_depth,
                   generation_num, range_pos, num_of_gens_without_improvements,
                   prev_best, individuals_to_select, selected_individuals,
                   new_population, time_limit_reached, error, steps,
                   last_change_gen, best_at_check, increases_in_run>>

\* TPETuner.tune, lines 329-342.
TPETune ==
    /\ pc = "tune"
    /\ args.tuner = "TPETuner"
    /\ pc' = "returned"
    /\ result' = tune_outcome
    /\ UNCHANGED <<cfg_vars, tuner_vars, reproduce_vars, tree_vars, make_vars, best_single_model,
                   population_is_None, population,
                   population_id, archive, archive_updated_with, history, max_depth,
                   generation_num, range_pos, num_of_gens_without_improvements,
                   prev_best, individuals_to_select, selected_individuals,
                   new_population, time_limit_reached, error, steps,
                   last_change_gen, best_at_check, increases_in_run>>

\* FLOTuner.tune, lines 346-361.
FLOTune ==
    /\ pc = "tune"
    /\ args.tuner = "FLOTuner"
    /\ pc' = "returned"
    /\ result' = tune_outcome
    /\ UNCHANGED <<cfg_vars, tuner_vars, reproduce_vars, tree_vars, make_vars, best_single_model,
                   population_is_None, population,
                   population_id, archive, archive_updated_with, history, max_depth,
                   generation_num, range_pos, num_of_gens_without_improvements,
                   prev_best, individuals_to_select, selected_individuals,
                   new_population, time_limit_reached, error, steps,
                   last_change_gen, best_at_check, increases_in_run>>

NextTune ==
    \/ SklearnTune
    \/ TPETune
    \/ FLOTune

SpecTune == InitTune /\ [][NextTune]_vars

\* ------------------------------------------- SklearnCustomRandomTuner.tune
\* The parameter sets a search can draw, by number.
ParamSets == 0..MaxParams

\* (None, None), which tune returns after a ValueError.
NonePair == [params |-> None, model |-> None]

\* model.get_params() of the object a name is bound to: best_model and
\* self.trained_model are names of one object.
get_params(model) == IF model = "self.trained_model" THEN trained_model ELSE None

\* One scored parameter set.
Scored(params, score) == [params |-> params, score |-> score]

\* A SklearnCustomRandomTuner constructed for a task, around a model that is
\* set to some parameters.
InitCustomTune ==
    /\ requirements = [pop_size |-> 1, num_of_generations |-> 1,
                       max_depth |-> MaxDepth, start_depth |-> None,
                       add_single_model_chains |-> FALSE, primary |-> PrimaryModels]
    /\ parameters \in FixedDepthParameters({FALSE})
    /\ chain_class = necessary_attrs
    /\ args \in [tuner : {"SklearnCustomRandomTuner"},
                  task_type : {"classification", "regression"},
                  max_iterations : 0..MaxIterations]
    /\ population_is_None = TRUE
    /\ population = <<>>
    /\ max_depth = initial_max_depth(requirements, parameters)
    /\ pc = "custom_tune"
    /\ error = ""
    /\ InitOptimiser({0})
    /\ trained_model \in ParamSets
    /\ best_model = None
    /\ best_score = None
    /\ best_params = None
    /\ best_quality_metric = None
    /\ iteration = 0
    /\ seen = <<>>

\* SklearnCustomRandomTuner.tune, lines 236-240 and 252-254: the model as it
\* is given is scored first, and the scoring can raise ValueError.
CustomTuneStart ==
    /\ pc = "custom_tune"
    /\ \E score \in 0..MaxScore, raises \in BOOLEAN :
          IF raises
          THEN /\ pc' = "returned"
               /\ result' = NonePair
               /\ UNCHANGED <<best_model, best_score, best_params, seen>>
          ELSE /\ best_model' = "self.trained_model"
               /\ best_score' = score
               /\ best_params' = get_params("self.trained_model")
               /\ seen' = <<Scored(trained_model, score)>>
               /\ pc' = IF args.max_iterations = 0 THEN "custom_return" ELSE "custom_loop"
               /\ UNCHANGED result
    /\ UNCHANGED <<cfg_vars, reproduce_vars, tree_vars, make_vars, best_single_model,
                   population_is_None, population,
                   population_id, archive, archive_updated_with, history, max_depth,
                   generation_num, range_pos, num_of_gens_without_improvements,
                   prev_best, individuals_to_select, selected_individuals,
                   new_population, time_limit_reached, error, steps,
                   last_change_gen, best_at_check, increases_in_run,
                   trained_model, best_quality_metric, iteration>>

\* SklearnCustomRandomTuner.tune, lines 240-250 and 252-254: one iteration.
\* The drawn parameters are set on self.trained_model itself (line 242), the
\* scoring can raise ValueError, and the loop stops after the iteration at
\* which the time limit is reached.
CustomTuneIteration ==
    /\ pc = "custom_loop"
    /\ iteration < args.max_iterations
    /\ iteration' = iteration + 1
    /\ \E params \in ParamSets, score \in 0..MaxScore, raises \in BOOLEAN,
          limit \in BOOLEAN :
          /\ trained_model' = params
          /\ IF raises
             THEN /\ pc' = "returned"
                  /\ result' = NonePair
                  /\ UNCHANGED <<best_model, best_score, best_params, seen,
                                 time_limit_reached>>
             ELSE /\ seen' = Append(seen, Scored(params, score))
                  /\ IF is_score_better(args.task_type, best_score, score)
                     THEN /\ best_params' = params
                          /\ best_model' = "self.trained_model"
                          /\ best_score' = score
                     ELSE UNCHANGED <<best_params, best_model, best_score>>
                  /\ time_limit_reached' = limit
                  /\ pc' = IF limit THEN "custom_return"
                           ELSE IF iteration' = args.max_iterations THEN "custom_return"
                           ELSE "custom_loop"
                  /\ UNCHANGED result
    /\ UNCHANGED <<cfg_vars, reproduce_vars, tree_vars, make_vars, best_single_model,
                   population_is_None, population,
                   population_id, archive, archive_updated_with, history, max_depth,
                   generation_num, range_pos, num_of_gens_without_improvements,
                   prev_best, individuals_to_select, selected_individuals,
                   new_population, error, steps,
                   last_change_gen, best_at_check, increases_in_run,
                   best_quality_metric>>

\* SklearnCustomRandomTuner.tune, line 251: the pair handed back is
\* best_params and the object best_model is bound to, as it is set now.
CustomTuneReturn ==
    /\ pc = "custom_return"
    /\ pc' = "returned"
    /\ result' = [params |-> best_params, model |-> get_params(best_model)]
    /\ UNCHANGED <<cfg_vars, tuner_vars, reproduce_vars, tree_vars, make_vars,
                   best_single_model, population_is_None, population,
                   population_id, archive, archive_updated_with, history, max_depth,
                   generation_num, range_pos, num_of_gens_without_improvements,
                   prev_best, individuals_to_select, selected_individuals,
                   new_population, time_limit_reached, error, steps,
                   last_change_gen, best_at_check, increases_in_run>>

NextCustomTune ==
    \/ CustomTuneStart
    \/ CustomTuneIteration
    \/ CustomTuneReturn

SpecCustomTune == InitCustomTune /\ [][NextCustomTune]_vars

\* --------------------------------------- ForecastingCustomRandomTuner.tune
\* The arguments of one call of tune, and whether get_random_params supports
\* the types of params_range (lines 293-300).
InitForecastTune ==
    /\ requirements = [pop_size |-> 1, num_of_generations |-> 1,
                       max_depth |-> MaxDepth, start_depth |-> None,
                       add_single_model_chains |-> FALSE, primary |-> PrimaryModels]
    /\ parameters \in FixedDepthParameters({FALSE})
    /\ chain_class = necessary_attrs
    /\ args \in [tuner : {"ForecastingCustomRandomTuner"},
                  default_params : ParamSets,
                  iterations : 0..MaxIterations,
                  params_range_supported : BOOLEAN]
    /\ population_is_None = TRUE
    /\ population = <<>>
    /\ max_depth = initial_max_depth(requirements, parameters)
    /\ pc = "forecast_tune"
    /\ error = ""
    /\ InitOptimiser({0})
    /\ NoTuner

\* ForecastingCustomRandomTuner.tune, lines 265-273: the default parameters
\* are fitted and scored outside any try block.
ForecastTuneStart ==
    /\ pc = "forecast_tune"
    /\ \E quality_metric \in 0..MaxScore, raises \in BOOLEAN :
          IF raises
          THEN /\ pc' = "error"
               /\ error' = "ValueError"
               /\ UNCHANGED <<best_quality_metric, best_params, seen>>
          ELSE /\ best_quality_metric' = quality_metric
               /\ best_params' = args.default_params
               /\ seen' = <<Scored(args.default_params, quality_metric)>>
               /\ pc' = IF args.iterations = 0 THEN "forecast_return" ELSE "forecast_loop"
               /\ UNCHANGED error
    /\ UNCHANGED <<cfg_vars, reproduce_vars, tree_vars, make_vars, best_single_model,
                   population_is_None, population,
                   population_id, archive, archive_updated_with, history, max_depth,
                   generation_num, range_pos, num_of_gens_without_improvements,
                   prev_best, individuals_to_select, selected_individuals,
                   new_population, time_limit_reached, result, steps,
                   last_change_gen, best_at_check, increases_in_run,
                   trained_model, best_model, best_score, iteration>>

\* ForecastingCustomRandomTuner.tune, lines 273-284: one iteration.
\* get_random_params (line 274, outside the try) raises ValueError for a
\* range it does not support; a ValueError of fit or predict is passed over;
\* a candidate below best_quality_metric becomes best_params, and
\* best_quality_metric is left as it is.
ForecastTuneIteration ==
    /\ pc = "forecast_loop"
    /\ iteration < args.iterations
    /\ iteration' = iteration + 1
    /\ IF ~args.params_range_supported
       THEN /\ pc' = "error"
            /\ error' = "ValueError"
            /\ UNCHANGED <<best_params, seen>>
       ELSE /\ \E random_params \in ParamSets, quality_metric \in 0..MaxScore,
                  raises \in BOOLEAN :
                  IF raises
                  THEN /\ seen' = Append(seen, Scored(random_params, None))
                       /\ UNCHANGED best_params
                  ELSE /\ seen' = Append(seen, Scored(random_params, quality_metric))
                       /\ best_params' = IF quality_metric < best_quality_metric
                                         THEN random_params
                                         ELSE best_params
            /\ pc' = IF iteration' = args.iterations THEN "forecast_return"
                     ELSE "forecast_loop"
            /\ UNCHANGED error
    /\ UNCHANGED <<cfg_vars, reproduce_vars, tree_vars, make_vars, best_single_model,
                   population_is_None, population,
                   population_id, archive, archive_updated_with, history, max_depth,
                   generation_num, range_pos, num_of_gens_without_improvements,
                   prev_best, individuals_to_select, selected_individuals,
                   new_population, time_limit_reached, result, steps,
                   last_change_gen, best_at_check, increases_in_run,
                   trained_model, best_model, best_score, best_quality_metric>>

\* ForecastingCustomRandomTuner.tune, line 285.
ForecastTuneReturn ==
    /\ pc = "forecast_return"
    /\ pc' = "returned"
    /\ result' = best_params
    /\ UNCHANGED <<cfg_vars, tuner_vars, reproduce_vars, tree_vars, make_vars,
                   best_single_model, population_is_None, population,
                   population_id, archive, archive_updated_with, history, max_depth,
                   generation_num, range_pos, num_of_gens_without_improvements,
                   prev_best, individuals_to_select, selected_individuals,
                   new_population, time_limit_reached, error, steps,
                   last_change_gen, best_at_check, increases_in_run>>

NextForecastTune ==
    \/ ForecastTuneStart
    \/ ForecastTuneIteration
    \/ ForecastTuneReturn

SpecForecastTune == InitForecastTune /\ [][NextForecastTune]_vars

\* ------------------------------------------------------ the tree generator
\* GP_Node.get_depth_up: 0 for the root, one more than the node it leads to
\* for every other node.
RECURSIVE get_depth_up(_)
get_depth_up(node) ==
    IF tree_nodes[node].nodes_to = 0 THEN 0 ELSE get_depth_up(tree_nodes[node].nodes_to) + 1

\* _tree_growth if it attached a single child whatever randint draws.
Frame_one_child(node_parent, size) ==
    [node_parent |-> node_parent, offspring_size |-> 1, offspring_node |-> 0]

\* A call of _tree_growth(node_parent) that has drawn its offspring_size (line
\* 38) and stands before iteration offspring_node of its loop.
Frame(node_parent, size) ==
    [node_parent |-> node_parent, offspring_size |-> size, offspring_node |-> 0]

GP_Node(secondary, nodes_to) ==
    [secondary |-> secondary, nodes_to |-> nodes_to, offspring |-> 0]

\* node_parent.offspring_fill(new_node), and the loop of the caller moves on.
offspring_fill(tree, node_parent) ==
    [tree EXCEPT ![node_parent].offspring = @ + 1]

next_offspring(frames) ==
    [frames EXCEPT ![Len(frames)].offspring_node = @ + 1]

\* The generator's requirements, and the depth settings of the optimiser that
\* calls a generation function.
InitTree ==
    /\ requirements \in [pop_size : {1}, num_of_generations : {1},
                          max_depth : 0..TreeDepth, max_arity : 2..MaxArity,
                          start_depth : {None} \cup 0..(TreeDepth + 1),
                          add_single_model_chains : {FALSE}, primary : {PrimaryModels}]
    /\ parameters \in [genetic_scheme_type : {"generational"}, multi_objective : {FALSE},
                        with_auto_depth_configuration : BOOLEAN,
                        depth_increase_step : {DefaultDepthIncreaseStep}]
    /\ chain_class = necessary_attrs
    /\ args = None
    /\ population_is_None = TRUE
    /\ population = <<>>
    /\ max_depth = initial_max_depth(requirements, parameters)
    /\ pc = "tree_generation"
    /\ error = ""
    /\ InitRest({0})

\* _tree_generation, lines 33-34: the root is a secondary node, and
\* _tree_growth is called for it.
TreeGeneration ==
    /\ pc = "tree_generation"
    /\ pc' = "tree_growth"
    /\ tree_nodes' = <<GP_Node(TRUE, 0)>>
    /\ \E size \in 2..requirements.max_arity : stack' = <<Frame(1, size)>>
    /\ UNCHANGED <<cfg_vars, tuner_vars, reproduce_vars, make_vars, best_single_model, population_is_None, population,
                   population_id, archive, archive_updated_with, history, max_depth,
                   generation_num, range_pos, num_of_gens_without_improvements,
                   prev_best, individuals_to_select, selected_individuals,
                   new_population, time_limit_reached, error, result, steps,
                   last_change_gen, best_at_check, increases_in_run>>

\* Lines 39-51 if the coin alone decided between a primary and a secondary
\* child, whatever the depth of node_parent.
TreeGrowth_whatever_depth ==
    /\ pc = "tree_growth"
    /\ stack[Len(stack)].offspring_node < stack[Len(stack)].offspring_size
    /\ LET node_parent == stack[Len(stack)].node_parent
           depth == get_depth_up(node_parent)
       IN \E coin \in 0..1 :
              IF coin # 0
              THEN /\ tree_nodes' = offspring_fill(Append(tree_nodes, GP_Node(FALSE, node_parent)),
                                              node_parent)
                   /\ stack' = next_offspring(stack)
              ELSE /\ tree_nodes' = Append(tree_nodes, GP_Node(TRUE, node_parent))
                   /\ \E size \in 2..requirements.max_arity :
                          stack' = Append(stack, Frame(Len(tree_nodes) + 1, size))
    /\ UNCHANGED <<cfg_vars, tuner_vars, reproduce_vars, make_vars, best_single_model, population_is_None, population,
                   population_id, archive, archive_updated_with, history, max_depth,
                   generation_num, range_pos, num_of_gens_without_improvements,
                   prev_best, individuals_to_select, selected_individuals,
                   new_population, time_limit_reached, error, result, steps,
                   last_change_gen, best_at_check, increases_in_run, pc>>

\* _tree_growth, lines 39-51: one iteration of the loop, up to the call of
\* _tree_growth for a new secondary node.
TreeGrowth ==
    /\ pc = "tree_growth"
    /\ stack[Len(stack)].offspring_node < stack[Len(stack)].offspring_size
    /\ LET node_parent == stack[Len(stack)].node_parent
           depth == get_depth_up(node_parent)
       IN \E coin \in 0..1 :
              IF \/ depth >= requirements.max_depth
                 \/ (depth < requirements.max_depth /\ requirements.max_depth # 0 /\ coin # 0)
              THEN /\ tree_nodes' = offspring_fill(Append(tree_nodes, GP_Node(FALSE, node_parent)),
                                              node_parent)
                   /\ stack' = next_offspring(stack)
              ELSE /\ tree_nodes' = Append(tree_nodes, GP_Node(TRUE, node_parent))
                   /\ \E size \in 2..requirements.max_arity :
                          stack' = Append(stack, Frame(Len(tree_nodes) + 1, size))
    /\ UNCHANGED <<cfg_vars, tuner_vars, reproduce_vars, make_vars, best_single_model, population_is_None, population,
                   population_id, archive, archive_updated_with, history, max_depth,
                   generation_num, range_pos, num_of_gens_without_improvements,
                   prev_best, individuals_to_select, selected_individuals,
                   new_population, time_limit_reached, error, result, steps,
                   last_change_gen, best_at_check, increases_in_run, pc>>

\* _tree_growth returns: to line 51 of the call that made it, or to line 35.
TreeGrowthReturn ==
    /\ pc = "tree_growth"
    /\ stack[Len(stack)].offspring_node = stack[Len(stack)].offspring_size
    /\ IF Len(stack) = 1
       THEN /\ pc' = "tree_done"
            /\ stack' = <<>>
            /\ tree_nodes' = tree_nodes
       ELSE /\ pc' = pc
            /\ stack' = next_offspring(SubSeq(stack, 1, Len(stack) - 1))
            /\ tree_nodes' = offspring_fill(tree_nodes, stack[Len(stack) - 1].node_parent)
    /\ UNCHANGED <<cfg_vars, tuner_vars, reproduce_vars, make_vars, best_single_model, population_is_None, population,
                   population_id, archive, archive_updated_with, history, max_depth,
                   generation_num, range_pos, num_of_gens_without_improvements,
                   prev_best, individuals_to_select, selected_individuals,
                   new_population, time_limit_reached, error, result, steps,
                   last_change_gen, best_at_check, increases_in_run>>

NextTree ==
    \/ TreeGeneration
    \/ TreeGrowth
    \/ TreeGrowthReturn

SpecTree == InitTree /\ [][NextTree]_vars

\* The generator is a sequential program: while a step is left it is taken.
SpecTreeFair == SpecTree /\ WF_vars(NextTree)

\* ------------------------------------------------------------- properties
IsPrefix(s, t) == Len(s) <= Len(t) /\ SubSeq(t, 1, Len(s)) = s

SingleObjective == ~ parameters.multi_objective

AllEvaluated(individuals) ==
    \A i \in 1..Len(individuals) : individuals[i].fitness # NoFitness

FinalSteps == {"final_archive", "result", "done"}

\* C1: after the inheritance step and the elitism append of every generation
\* the population holds exactly requirements.pop_size individuals, whatever the
\* population size, the genetic scheme and the mode.
C1_PopulationSizeAfterInherit ==
    pc = "record_history" => Len(population) = requirements.pop_size

\* C2: single-objective with elitism (pop_size > 1): the best fitness of the
\* population an inheritance step leaves is never worse (never greater) than
\* the best fitness of the population it started from.
C2_BestNeverWorse ==
    [][(/\ pc = "inherit"
        /\ pc' = "record_history"
        /\ SingleObjective
        /\ requirements.pop_size > 1)
       => \E i \in 1..Len(population') : \A j \in 1..Len(population) :
              FitnessKey(population'[i]) <= FitnessKey(population[j])]_vars

\* An elite stands in a population whose offspring are all worse than it.
C2_Witness ==
    /\ pc = "record_history"
    /\ SingleObjective
    /\ requirements.pop_size > 1
    /\ population[Len(population)] = prev_best
    /\ \A i \in 1..(Len(population) - 1) :
           FitnessKey(population[i]) > FitnessKey(prev_best)

\* C3: from the record of the initial population on, at every generation
\* boundary and when the result is computed, every individual of the
\* population carries a fitness that an evaluation assigned, and so does the
\* individual a single-objective run returns.
C3_PopulationEvaluated ==
    /\ history.individuals # <<>> => AllEvaluated(population)
    /\ pc = "inherit" => AllEvaluated(new_population)
    /\ (pc = "done" /\ SingleObjective) => result.fitness # NoFitness

\* The result is computed over a population of offspring and elite.
C3_Witness ==
    /\ pc = "result"
    /\ SingleObjective
    /\ range_pos >= 1
    /\ Len(population) >= 2
    /\ population[Len(population)] = prev_best

\* C4: the steps a generation has executed are always an initial part of the
\* order archive update, stagnation check, depth adjustment, regularization,
\* selection, reproduction, offspring evaluation, inheritance, history record,
\* budget check, each at most once; a generation that is left has executed all
\* ten; no generation starts before the initial population is evaluated and
\* recorded, and finalization follows only a completed generation (or none).
C4_StepOrder ==
    /\ IsPrefix(steps, GenerationOrder)
    /\ (\E k \in 1..Len(GenerationOrder) : GenerationOrder[k] = pc)
           => /\ pc = GenerationOrder[Len(steps) + 1]
              /\ Len(history.individuals) =
                     IF pc = "budget_check" THEN range_pos + 1 ELSE range_pos
              /\ range_pos >= 1
    /\ pc \in {"make_population", "single_models", "evaluate_initial"}
           => steps = <<>> /\ range_pos = 0 /\ history.individuals = <<>>
    /\ pc \in FinalSteps \cup {"loop"}
           => /\ steps = IF range_pos = 0 THEN <<>> ELSE GenerationOrder
              /\ Len(history.individuals) = range_pos + 1

\* A third generation is under way and about to inherit.
C4_Witness ==
    /\ pc = "inherit"
    /\ range_pos = 2
    /\ Len(steps) = 7

\* C5: the timer is asked only by the budget check that ends a generation,
\* after inheritance and the history record; once it has answered that the
\* limit is reached nothing but finalization runs: no generation is started
\* and the population is left as it is.
C5_BudgetOnlyAtBoundary ==
    [][/\ time_limit_reached' # time_limit_reached
           => /\ pc = "budget_check"
              /\ steps = SubSeq(GenerationOrder, 1, Len(GenerationOrder) - 1)
       /\ time_limit_reached'
           => /\ pc' \in FinalSteps
              /\ range_pos' = range_pos
              /\ generation_num' = generation_num
              /\ population' = population
              /\ new_population' = <<>>
              /\ selected_individuals' = <<>>]_vars

\* A run is over that the timer cut short.
C5_Witness ==
    /\ pc = "done"
    /\ time_limit_reached
    /\ range_pos < requirements.num_of_generations - 1

\* C6: a run whose initial population has been evaluated never stops short of
\* finalization.
C6_ReachesFinalization ==
    pc = "error" => history.individuals = <<>>

\* C7: history.individuals holds the populations in the order they were made,
\* the initial one first and then one per generation; when an archive is kept,
\* archive_history entry i is the archive as updated with population entry i;
\* at return both hold one entry more than generations were executed.
C7_History ==
    /\ \A k \in 1..Len(history.individuals) : history.individuals[k] = k - 1
    /\ \A k \in 1..Len(history.archive_history) : history.archive_history[k] = k - 1
    /\ SingleObjective => history.archive_history = <<>>
    /\ pc = "done"
           => /\ Len(history.individuals) = 1 + range_pos
              /\ parameters.multi_objective
                     => history.archive_history = history.individuals

\* A multi-objective run of two generations has returned.
C7_Witness ==
    /\ pc = "done"
    /\ parameters.multi_objective
    /\ range_pos = 2
    /\ Len(history.archive_history) = 3

\* The generations in a row, up to the one checked last, without improvement.
StagnantGenerations == generation_num - last_change_gen

\* C8: with auto-depth configuration and depth_increase_step = 3 the depth
\* adjustment raises max_depth by exactly 1 in the third stagnant generation
\* in a row, given max_depth is below requirements.max_depth, and leaves it
\* alone in the first and the second.
C8_DepthIncreaseAtThird ==
    [][(/\ pc = "depth_adjust"
        /\ pc' = "regularize"
        /\ parameters.with_auto_depth_configuration
        /\ parameters.depth_increase_step = 3)
       => /\ (StagnantGenerations = 3 /\ max_depth < requirements.max_depth)
                 => max_depth' = max_depth + 1
          /\ StagnantGenerations < 3 => max_depth' = max_depth]_vars

\* The depth has just been raised in the third stagnant generation.
C8_Witness ==
    /\ pc = "regularize"
    /\ parameters.with_auto_depth_configuration
    /\ parameters.depth_increase_step = 3
    /\ StagnantGenerations = 3
    /\ requirements.start_depth = 1
    /\ max_depth = 2

\* C9: in every state of a run self.max_depth <= requirements.max_depth.
C9_DepthWithinLimit == max_depth <= requirements.max_depth

\* C10: once a stagnation check has run, the counter equals the number of
\* generations in a row, up to the one checked last, whose best was the best
\* of the generation before: 0 in the first generation and whenever the best
\* has just changed, one more than before when it has not.
C10_StagnationCounter ==
    num_of_gens_without_improvements # None
        => num_of_gens_without_improvements =
               IF pc \in {"archive_update", "stagnation_check"}
               THEN generation_num - 1 - last_change_gen
               ELSE StagnantGenerations

\* The best changed in the third generation and stayed in the fourth.
C10_Witness ==
    /\ pc = "depth_adjust"
    /\ generation_num = 3
    /\ last_change_gen = 2
    /\ num_of_gens_without_improvements = 1

\* The least fitness of a list, and the individuals of a list that have it.
MinFitness(individuals) == individuals[argmin(individuals)].fitness

\* The list is the population, or the list the equivalents are looked up in.
OverOwnList ==
    args.individuals = population \/ ~ args.equivalents_from_current_pop

\* C11: when get_best_individual returns for a list it looks the equivalents
\* up in, the returned individual has the fewest nodes among the individuals
\* of the list whose fitness equals the best fitness, wherever they stand.
C11_FewestNodesAmongBest ==
    (pc = "returned" /\ OverOwnList)
        => \A i \in 1..Len(args.individuals) :
               args.individuals[i].fitness = MinFitness(args.individuals)
                   => result.nodes <= args.individuals[i].nodes

\* C12: the individual get_best_individual returns has the least fitness of
\* the list it was given, with either value of equivalents_from_current_pop,
\* and the call does not fail on reading the tie-break's choice.
C12_TieBreakKeepsBestFitness ==
    /\ pc = "returned" => result.fitness = MinFitness(args.individuals)
    /\ error # "IndexError"

\* C13: in single-objective mode with add_single_model_chains the result is
\* the best single-model chain when its fitness is better than or equal to
\* that of the evolved best, and the evolved best otherwise, so its fitness is
\* the lesser of the two and never worse than the baseline; without the
\* baselines it is the evolved best, and in multi-objective mode the archive.
C13_ResultAgainstBaseline ==
    pc = "done" =>
        IF parameters.multi_objective THEN result = archive
        ELSE /\ result.fitness = MinFitness(population)
                    \/ /\ requirements.add_single_model_chains
                       /\ result = best_single_model
             /\ requirements.add_single_model_chains =>
                    /\ FitnessKey(result) <= FitnessKey(best_single_model)
                    /\ FitnessKey(result) <= FitnessKey(population[argmin(population)])
                    /\ FitnessKey(best_single_model) <= FitnessKey(population[argmin(population)])
                           => result = best_single_model

\* A baseline is returned that beats every individual of the last population.
C13_Witness ==
    /\ pc = "done"
    /\ SingleObjective
    /\ requirements.add_single_model_chains
    /\ range_pos >= 1
    /\ result = best_single_model
    /\ FitnessKey(best_single_model) < FitnessKey(population[argmin(population)])

\* The steps of a generation between the archive update and the inheritance,
\* during which the population is the one the archive was updated with.
AfterArchiveUpdate ==
    {"stagnation_check", "depth_adjust", "regularize", "select", "reproduce",
     "evaluate_offspring", "inherit"}

\* Every individual of the list is in the archive or dominated by a member of it.
CoveredByArchive(individuals) ==
    \A i \in 1..Len(individuals) :
        \/ individuals[i] \in archive
        \/ \E a \in archive : Dominates(a.fitness, individuals[i].fitness)

\* C14: in multi-objective mode the archive is updated with the current
\* population in every generation and once more at termination, so that after
\* an update every individual of that population is in the archive or
\* dominated by a member of it; no member of the archive is ever dominated by
\* another member; a single-objective run keeps no archive.
C14_ArchiveNonDominated ==
    /\ \A a, b \in archive : ~ Dominates(a.fitness, b.fitness)
    /\ SingleObjective => archive = {}
    /\ (parameters.multi_objective /\ pc \in AfterArchiveUpdate \cup {"result", "done"})
           => /\ archive_updated_with = population_id
              /\ CoveredByArchive(population)

\* The last update dropped an individual of the population and kept two that
\* do not dominate each other.
C14_Witness ==
    /\ pc = "result"
    /\ parameters.multi_objective
    /\ range_pos >= 1
    /\ Cardinality(archive) = 2
    /\ \E i \in 1..Len(population) : population[i] \notin archive

C16_CapabilityCheckAtConstruction ==
    /\ ~ (necessary_attrs \subseteq chain_class)
           => /\ pc = "error"
              /\ error = "AttributeError"
              /\ steps = <<>>
              /\ history.individuals = <<>>
              /\ population_id = 0
              /\ AllEvaluated(population) => population = <<>>
    /\ error = "AttributeError" => ~ (necessary_attrs \subseteq chain_class)

\* The construction failed for a class without node_childs that was handed a list.
C16_Witness ==
    /\ chain_class = necessary_attrs \ {"node_childs"}
    /\ error = "AttributeError"
    /\ pc = "error"
    /\ ~ population_is_None
    /\ population # <<>>

C18_EvaluationFailureNonFatal ==
    (requirements.add_single_model_chains /\ necessary_attrs \subseteq chain_class)
           => /\ pc # "error"
              /\ pc \notin {"make_population", "single_models"}
                     => best_single_model.fitness # NoFitness
              /\ (pc = "done" /\ SingleObjective) => result.fitness # NoFitness

C20_GeneratedDepthWithinBound ==
    /\ \A node \in 1..Len(tree_nodes) : get_depth_up(node) <= requirements.max_depth
    /\ generation_depth(requirements, initial_max_depth(requirements, parameters))
           <= max_depth

\* The nodes that lead to the given node: its children.
ChildrenOf(node) == {k \in 1..Len(tree_nodes) : tree_nodes[k].nodes_to = node}

\* C21: the root of a generated tree is a secondary node; a child attached to
\* a node whose depth has reached max_depth is a primary node; no node is
\* given more than max_arity children, and only secondary nodes are given
\* any; in the finished tree every secondary node has between 2 and max_arity
\* children, all of them attached, so every leaf is a primary node.
C21_TreeShape ==
    /\ tree_nodes # <<>>
           => tree_nodes[1].secondary /\ tree_nodes[1].nodes_to = 0
    /\ \A k \in 2..Len(tree_nodes) :
           /\ tree_nodes[k].nodes_to \in 1..(k - 1)
           /\ tree_nodes[tree_nodes[k].nodes_to].secondary
           /\ get_depth_up(tree_nodes[k].nodes_to) >= requirements.max_depth
                  => ~ tree_nodes[k].secondary
    /\ \A k \in 1..Len(tree_nodes) :
           /\ Cardinality(ChildrenOf(k)) <= requirements.max_arity
           /\ tree_nodes[k].offspring <= Cardinality(ChildrenOf(k))
    /\ pc = "tree_done"
           => \A k \in 1..Len(tree_nodes) :
                  /\ tree_nodes[k].offspring = Cardinality(ChildrenOf(k))
                  /\ tree_nodes[k].secondary
                         => Cardinality(ChildrenOf(k)) \in 2..requirements.max_arity
                  /\ ChildrenOf(k) = {} => ~ tree_nodes[k].secondary

\* A finished tree whose root has two children, one of them a secondary node
\* at depth max_depth with three primary children.
C21_Witness ==
    /\ pc = "tree_done"
    /\ requirements.max_depth = 1
    /\ Cardinality(ChildrenOf(1)) = 2
    /\ \E k \in ChildrenOf(1) :
           /\ tree_nodes[k].secondary
           /\ Cardinality(ChildrenOf(k)) = 3
           /\ \A j \in ChildrenOf(k) : ~ tree_nodes[j].secondary

\* C22: _make_population keeps a generated chain only if it passes the
\* constraint and drops it otherwise; the list it is filling never holds more
\* than pop_size chains; it returns exactly pop_size chains, every one of
\* which passed the constraint; and it never returns when no chain passes.
C22_OnlyValidChains ==
    /\ \A i \in 1..Len(model_chains) : constraint_function(model_chains[i])
    /\ Len(model_chains) <= requirements.pop_size
    /\ pc = "single_models"
           => /\ Len(population) = requirements.pop_size
              /\ \A i \in 1..Len(population) : constraint_function(population[i])
              /\ args.valid # {}
    /\ pc # "single_models" => population = <<>>

\* One chain is kept, the list is not full yet, and the chain generated last
\* has just been discarded.
C22_Witness ==
    /\ pc = "make_population_loop"
    /\ model_chains # <<>>
    /\ Len(model_chains) < requirements.pop_size
    /\ ~ constraint_function(chain)

\* C23: no step of a run changes the requirements: population size, depth
\* limits, generation count, the pool of primary models and
\* add_single_model_chains keep the values they had before the run.
C23_RequirementsReadOnly == [][requirements' = requirements]_vars

\* The population __init__ and line 125 seed for the given initial_chain.
SeededAsGiven ==
    IF args.initial_chain.kind = "single"
    THEN /\ ~ population_is_None
         /\ Len(population) = requirements.pop_size
         /\ \A i \in 1..Len(population) : population[i] = args.initial_chain.chains[1]
    ELSE IF args.initial_chain.kind = "list"
    THEN ~ population_is_None /\ population = args.initial_chain.chains
    ELSE IF pc = "make_population"
    THEN population_is_None
    ELSE /\ ~ population_is_None
         /\ Len(population) = requirements.pop_size
         /\ population \in NewLists(MaxPop)

\* C24: the population is seeded in one of three ways: a single initial chain
\* pop_size times, an initial list as given, or pop_size generated chains when
\* none is given; it is evaluated once, before the first generation, by the
\* step that opens the history; afterwards the population changes only by
\* inheritance, which fills it with members of the evaluated population and
\* of the evaluated offspring as they are: only offspring are evaluated by a
\* generation, the survivors keep the fitness they have.
C24_SeededAndEvaluatedOnce ==
    /\ [](pc \in {"make_population", "single_models", "evaluate_initial"} => SeededAsGiven)
    /\ [][/\ pc' = "evaluate_initial" => pc = "single_models"
          /\ (pc = "evaluate_initial" /\ pc' # "error")
              => /\ history.individuals = <<>> /\ range_pos = 0
                 /\ pc' = "loop"
                 /\ AllEvaluated(population')
                 /\ \A i \in 1..Len(population) : population'[i].nodes = population[i].nodes
          /\ pc' = "archive_update" => AllEvaluated(population) /\ history.individuals # <<>>
          /\ (pc \notin {"make_population", "evaluate_initial", "inherit"})
              => population' = population
          /\ pc = "inherit"
              => /\ AllEvaluated(population) /\ AllEvaluated(new_population)
                 /\ Range(population') \subseteq Range(population) \cup Range(new_population)]_vars

\* A steady-state run seeded with copies of one chain is in its second
\* generation, and an individual of the population it was seeded with is
\* still there beside an offspring.
C24_Witness ==
    /\ args.initial_chain.kind = "single"
    /\ parameters.genetic_scheme_type = "steady_state"
    /\ pc = "record_history"
    /\ range_pos = 2
    /\ requirements.pop_size = MaxPop
    /\ \E i, j \in 1..Len(population) :
           /\ population[i].nodes = args.initial_chain.chains[1].nodes
           /\ population[j].nodes # args.initial_chain.chains[1].nodes

\* The calls of mutation among the calls reproduce has made.
MutationCalls == SelectSeq(calls, LAMBDA c : c.op = "mutation")

\* C25: reproduce calls crossover at most once and before every mutation;
\* every call is given the current self.max_depth as depth bound; for a pair
\* of parents it returns exactly two individuals, the first the mutation of
\* the first chain crossover handed over and the second the mutation of the
\* second, each mutated once; a single parent is mutated once and returned.
C25_MutationAfterCrossover ==
    /\ \A k \in 1..Len(calls) :
           /\ calls[k].max_depth = max_depth
           /\ calls[k].op = "crossover" => k = 1
    /\ pc \in {"reproduce_return", "returned"}
           => /\ Len(MutationCalls) = Len(new_inds)
              /\ \A i \in 1..Len(new_inds) : new_inds[i] = MutationCalls[i].out[1]
              /\ IF args.selected_individual_second # <<>>
                 THEN /\ Len(new_inds) = 2
                      /\ Len(calls) = 3
                      /\ calls[1].op = "crossover"
                      /\ calls[1].given = <<args.selected_individual_first[1],
                                             args.selected_individual_second[1]>>
                      /\ \A i \in 1..2 : MutationCalls[i].given = <<calls[1].out[i]>>
                 ELSE /\ Len(new_inds) = 1
                      /\ Len(calls) = 1
                      /\ calls[1].given = args.selected_individual_first
    /\ pc = "returned" => new_population = new_inds

\* reproduce has returned two offspring of a pair while self.max_depth is
\* below the limit of the requirements.
C25_Witness ==
    /\ pc = "returned"
    /\ args.selected_individual_second # <<>>
    /\ max_depth < requirements.max_depth
    /\ Len(new_population) = 2
    /\ calls[1].out[1] # calls[1].out[2]
    /\ new_population[1] # calls[1].out[1]

\* The least whole number that is not below pop_size * rate / RateDen.
CeilOfShare(pop_size, rate) ==
    CHOOSE n \in 0..(pop_size * RateDen) :
        /\ n * RateDen >= pop_size * rate
        /\ (n - 1) * RateDen < pop_size * rate

\* C26: under the steady-state scheme offspring_size is pop_size times the
\* offspring rate, rounded up, the rate being 0.5 when it is not given or
\* zero; under the generational scheme it is pop_size - 1; for a rate in
\* (0, 1] it is never above pop_size; and it is the number selection is asked
\* to provide parents for.
C26_OffspringSize ==
    /\ offspring_size =
           IF parameters.genetic_scheme_type = "steady_state"
           THEN CeilOfShare(requirements.pop_size,
                            IF offspring_rate = 0 THEN RateDen \div 2 ELSE offspring_rate)
           ELSE requirements.pop_size - 1
    /\ offspring_size <= requirements.pop_size
    /\ pc = "reproduce"
           => Len(selected_individuals) = num_of_parents_in_crossover(offspring_size)

\* A steady-state generation of three individuals at rate 0.25 has selected
\* the parents of one new individual: 0.75 rounded up.
C26_Witness ==
    /\ pc = "reproduce"
    /\ parameters.genetic_scheme_type = "steady_state"
    /\ requirements.pop_size = 3
    /\ offspring_rate = 1
    /\ offspring_size = 1
    /\ Len(selected_individuals) = 2

\* C27: _tree_generation returns, whatever randint draws, for every
\* max_depth >= 0 and max_arity >= 2: a call of _tree_growth is made only for
\* a secondary node, no secondary node lies deeper than max_depth, so no more
\* than max_depth + 1 calls are ever open at a time, and no call makes more
\* than max_arity iterations.
C27_TreeGrowthTerminates ==
    /\ <>(pc = "tree_done")
    /\ [](/\ Len(stack) <= requirements.max_depth + 1
          /\ \A k \in 1..Len(stack) :
                 /\ tree_nodes[stack[k].node_parent].secondary
                 /\ get_depth_up(stack[k].node_parent) = k - 1
                 /\ stack[k].offspring_node <= stack[k].offspring_size
                 /\ stack[k].offspring_size <= requirements.max_arity
          /\ \A k \in 1..Len(tree_nodes) :
                 tree_nodes[k].secondary => get_depth_up(k) <= requirements.max_depth)

\* The largest tree is finished: every draw was for the most children and
\* for a secondary node wherever the depth allowed one.
C27_Witness ==
    /\ pc = "tree_done"
    /\ requirements.max_depth = TreeDepth
    /\ requirements.max_arity = MaxArity
    /\ \A k \in 1..Len(tree_nodes) :
           get_depth_up(k) <= requirements.max_depth
               => tree_nodes[k].secondary /\ Cardinality(ChildrenOf(k)) = MaxArity

\* C28: every call of _sklearn_tune, TPETuner.tune and FLOTuner.tune returns
\* either the tuned parameters with the tuned estimator or the default
\* parameters with the original trained model: the tuned pair exactly when
\* the tuned score is strictly better than the default score (greater for
\* classification, lower for regression), the default pair otherwise.
C28_TunedOnlyIfBetter ==
    pc = "returned"
        => /\ result \in {TunedResult, DefaultResult}
           /\ result = TunedResult
                  <=> /\ args.raises = "nothing"
                      /\ IF args.task_type = "classification"
                         THEN args.new_score > args.default_score
                         ELSE args.new_score < args.default_score

\* The tuned score is strictly better than the default score.
StrictlyBetter ==
    IF args.task_type = "classification"
    THEN args.new_score > args.default_score
    ELSE args.new_score < args.default_score

\* C28, amended: a call whose search or scoring raises ValueError returns
\* (None, None); every other call returns the tuned parameters with the tuned
\* estimator exactly when the tuned score is strictly better than the default
\* score, and the default parameters with the original trained model
\* otherwise.
C28_TunedOnlyIfBetterOrNone ==
    pc = "returned"
        => IF args.raises # "nothing" THEN result = NoneResult
           ELSE IF StrictlyBetter THEN result = TunedResult
           ELSE result = DefaultResult

\* A regression tuner whose search found a score equal to the default has
\* returned the default parameters and the trained model.
C28_Witness ==
    /\ pc = "returned"
    /\ args.tuner = "TPETuner"
    /\ args.task_type = "regression"
    /\ args.raises = "nothing"
    /\ args.new_score = args.default_score
    /\ result = DefaultResult

\* C29: without auto-depth configuration self.max_depth is
\* requirements.max_depth from construction to the end of the run, whatever
\* start_depth is; with it, the depth adjustment of the first generation
\* (generation_num = 0) leaves self.max_depth as it is, even when the
\* stagnation counter equals depth_increase_step there.
C29_DepthFixedOrNotInFirstGeneration ==
    /\ [](~ parameters.with_auto_depth_configuration
             => max_depth = requirements.max_depth)
    /\ [][(pc = "depth_adjust" /\ generation_num = 0) => max_depth' = max_depth]_vars

\* The first generation has passed its depth adjustment with the counter at
\* a depth_increase_step of 0 and the depth below the limit, and the depth
\* is still the start depth.
C29_Witness ==
    /\ pc = "regularize"
    /\ generation_num = 0
    /\ parameters.with_auto_depth_configuration
    /\ parameters.depth_increase_step = 0
    /\ num_of_gens_without_improvements = 0
    /\ requirements.start_depth = 1
    /\ requirements.max_depth = 2
    /\ max_depth = 1

\* C30: self.max_depth never goes down; it changes only in the depth
\* adjustment of a generation, by +1, and only when the stagnation counter
\* equals depth_increase_step; the counter only goes up by one or back to 0,
\* and a depth increase leaves it as it is, so that between two resets the
\* depth is raised at most once, also when the stagnation goes on below the
\* limit.
C30_OneIncreasePerStagnationRun ==
    /\ [](increases_in_run <= 1)
    /\ [][/\ max_depth' \in {max_depth, max_depth + 1}
          /\ max_depth' # max_depth
              => /\ pc = "depth_adjust"
                 /\ num_of_gens_without_improvements = parameters.depth_increase_step
                 /\ num_of_gens_without_improvements' = num_of_gens_without_improvements
          /\ (pc = "stagnation_check" /\ generation_num # 0)
              => num_of_gens_without_improvements'
                     \in {0, num_of_gens_without_improvements + 1}
          /\ pc # "stagnation_check"
              => num_of_gens_without_improvements' = num_of_gens_without_improvements]_vars

\* The depth was raised once, the stagnation has gone on past the step, and
\* the depth adjustment has left the depth below the limit.
C30_Witness ==
    /\ pc = "regularize"
    /\ increases_in_run = 1
    /\ parameters.depth_increase_step = 1
    /\ num_of_gens_without_improvements = 3
    /\ max_depth = 2
    /\ requirements.max_depth = MaxDepth + 1

\* A scored parameter set that none of the scored ones beats.
BestScoring(task_type, params) ==
    \E i \in 1..Len(seen) :
        /\ seen[i].params = params
        /\ \A j \in 1..Len(seen) :
               ~is_score_better(task_type, seen[i].score, seen[j].score)

\* C31: when SklearnCustomRandomTuner.tune returns a pair, its best_params
\* are those of the best-scoring parameter set among the ones scored in the
\* iterations that ran, and its best_model is set to exactly those parameters.
C31_ConsistentBestPair ==
    (/\ pc = "returned"
     /\ result # NonePair)
        => /\ BestScoring(args.task_type, result.params)
           /\ result.model = result.params

\* The trial i of seen succeeded and no trial that succeeded scored lower.
LowestScored(i) ==
    /\ seen[i].score # None
    /\ \A j \in 1..Len(seen) :
           seen[j].score # None => seen[i].score <= seen[j].score

\* The step is an iteration whose fit or predict raised ValueError.
CandidateRaised ==
    /\ Len(seen') = Len(seen) + 1
    /\ seen'[Len(seen')].score = None

\* C32: ForecastingCustomRandomTuner.tune returns the parameter set with the
\* lowest quality metric among the default parameters and the candidates whose
\* fit and predict succeeded, and an iteration whose fit or predict raises
\* ValueError is skipped: it leaves best_params as they are.
C32_LowestMetricReturned ==
    /\ [](pc = "returned"
            => \E i \in 1..Len(seen) : seen[i].params = result /\ LowestScored(i))
    /\ [][CandidateRaised => best_params' = best_params]_vars

====
